---- MODULE Spec2Model ----
(***************************************************************************)
(* Tile-based level engine of bevy_sidescroller: the CSV, symbol and Tiled *)
(* importers and validators (level_loader.rs, level_parser.rs,             *)
(* tiled_loader.rs), the symbol maps (level_parser.rs), template placement *)
(* (level_templates.rs) and the in-game level editor (level_editor.rs)     *)
(* together with the startup level spawn (level_loader.rs).                *)
(*                                                                         *)
(* Text is a sequence of one-character strings.  Option values are         *)
(* sequences of length 0 (None) or 1 (Some).  Grids are sequences of rows, *)
(* so the Rust cell tiles[y][x] is tiles[y + 1][x + 1] here.               *)
(***************************************************************************)
EXTENDS Integers, Sequences, FiniteSets, Bags, TLC

VARIABLES
    source,       \* importer specifications: the input handed to an importer
    result,       \* importer specifications: what the importer returned
    editor,       \* the LevelEditor resource
    level_data,   \* Option<LevelData>: the LevelData resource
    entities,     \* bag of spawned tile entities
    file,         \* Option<text>: contents of assets/levels/editor_level.csv
    input,        \* ButtonInput<KeyCode>, ButtonInput<MouseButton>, cursor of this frame
    pending,      \* editor systems that have not run yet in this frame
    frame_start,  \* the LevelEditor resource as it was when the frame began
    panicked      \* TRUE once a system has panicked: the app is gone

vars == <<source, result, editor, level_data, entities, file, input, pending,
          frame_start, panicked>>

-----------------------------------------------------------------------------
(* Bounds of the model *)

MaxTextLen == 5      \* longest text handed to the CSV and symbol parsers
MaxTiledDim == 2     \* largest width / height of a Tiled map header
MaxTiledData == 3    \* longest data array of a Tiled layer
MaxTiledLayers == 2  \* most layers of a Tiled map
MaxWidth == 2        \* widest level handed to a serializer
MaxHeight == 2       \* tallest level handed to a serializer
LevelW == 2          \* width of the level the editor works on
LevelH == 1          \* height of the level the editor works on
MaxKeys == 2         \* most keys that are just pressed in one frame

-----------------------------------------------------------------------------
(* Option and sequence helpers *)

None == <<>>

Some(x) == <<x>>

Max(a, b) == IF a >= b THEN a ELSE b

Min(a, b) == IF a <= b THEN a ELSE b

SeqsUpTo(S, n) == UNION {[1..k -> S] : k \in 0..n}

LevelData(w, h, t) == [width |-> w, height |-> h, tiles |-> t]

EMPTY_TILE == 255

-----------------------------------------------------------------------------
(* Rust std string primitives, by what they do *)

Digits == <<"0", "1", "2", "3", "4", "5", "6", "7", "8", "9">>

DigitChars == {Digits[i] : i \in 1..10}

DigitValue(c) == (CHOOSE i \in 1..10 : Digits[i] = c) - 1

Whitespace == {" ", "\t", "\r", "\n"}

\* str::trim
RECURSIVE TrimStart(_)
TrimStart(s) ==
    IF s # <<>> /\ Head(s) \in Whitespace THEN TrimStart(Tail(s)) ELSE s

RECURSIVE TrimEnd(_)
TrimEnd(s) ==
    IF s # <<>> /\ s[Len(s)] \in Whitespace
    THEN TrimEnd(SubSeq(s, 1, Len(s) - 1))
    ELSE s

Trim(s) == TrimEnd(TrimStart(s))

\* str::split(sep): always at least one piece
RECURSIVE SplitAcc(_, _, _)
SplitAcc(s, sep, cur) ==
    IF s = <<>> THEN <<cur>>
    ELSE IF Head(s) = sep THEN <<cur>> \o SplitAcc(Tail(s), sep, <<>>)
    ELSE SplitAcc(Tail(s), sep, Append(cur, Head(s)))

Split(s, sep) == SplitAcc(s, sep, <<>>)

StripCr(l) ==
    IF l # <<>> /\ l[Len(l)] = "\r" THEN SubSeq(l, 1, Len(l) - 1) ELSE l

\* str::lines: split at "\n", no final empty line, a trailing "\r" dropped
StrLines(s) ==
    LET pieces == Split(s, "\n")
        kept == IF pieces[Len(pieces)] = <<>>
                THEN SubSeq(pieces, 1, Len(pieces) - 1)
                ELSE pieces
    IN [i \in 1..Len(kept) |-> StripCr(kept[i])]

\* u32::to_string
RECURSIVE U32ToString(_)
U32ToString(n) ==
    IF n < 10 THEN <<Digits[n + 1]>>
    ELSE Append(U32ToString(n \div 10), Digits[(n % 10) + 1])

RECURSIVE StripZeros(_)
StripZeros(s) ==
    IF Len(s) > 1 /\ Head(s) = "0" THEN StripZeros(Tail(s)) ELSE s

RECURSIVE DigitsValue(_)
DigitsValue(s) ==
    IF s = <<>> THEN 0
    ELSE 10 * DigitsValue(SubSeq(s, 1, Len(s) - 1)) + DigitValue(s[Len(s)])

U32MaxDigits == <<"4", "2", "9", "4", "9", "6", "7", "2", "9", "5">>

RECURSIVE DigitsGreater(_, _)
DigitsGreater(a, b) ==
    IF a = <<>> THEN FALSE
    ELSE IF DigitValue(Head(a)) # DigitValue(Head(b))
         THEN DigitValue(Head(a)) > DigitValue(Head(b))
         ELSE DigitsGreater(Tail(a), Tail(b))

\* str::parse::<u32>: an optional "+", then one or more decimal digits whose
\* value fits 32 bits; Some(value) or None for a ParseIntError
ParseU32(s) ==
    LET body == IF s # <<>> /\ Head(s) = "+" THEN Tail(s) ELSE s
        sig == StripZeros(body)
    IN IF body = <<>> THEN None
       ELSE IF \E i \in 1..Len(body) : body[i] \notin DigitChars THEN None
       ELSE IF Len(sig) > Len(U32MaxDigits) THEN None
       ELSE IF Len(sig) = Len(U32MaxDigits) /\ DigitsGreater(sig, U32MaxDigits) THEN None
       ELSE Some(DigitsValue(sig))

\* [String]::join
RECURSIVE Join(_, _)
Join(parts, sep) ==
    IF parts = <<>> THEN <<>>
    ELSE IF Len(parts) = 1 THEN parts[1]
    ELSE parts[1] \o <<sep>> \o Join(Tail(parts), sep)

RECURSIVE Concat(_)
Concat(ss) == IF ss = <<>> THEN <<>> ELSE Head(ss) \o Concat(Tail(ss))

-----------------------------------------------------------------------------
(* Importer results *)

Ok(level) == [status |-> "Ok", level |-> Some(level), err |-> ""]

Err(msg) == [status |-> "Err", level |-> None, err |-> msg]

\* the thread panics (index out of bounds): no value is returned
Panic == [status |-> "Panic", level |-> None, err |-> "index out of bounds"]

NotRun == [status |-> "NotRun", level |-> None, err |-> ""]

-----------------------------------------------------------------------------
(* level_loader.rs: CSV format *)

\* one data row: every piece trimmed and parsed, the first failure wins
ParseRow(line) ==
    LET pieces == Split(line, ",")
        parsed == [i \in 1..Len(pieces) |-> ParseU32(Trim(pieces[i]))]
    IN IF \E i \in 1..Len(pieces) : parsed[i] = None
       THEN None
       ELSE Some([i \in 1..Len(pieces) |-> parsed[i][1]])

\* the loop `for y in 0..height` of parse_level_text, from row y on:
\* Ok(level) when every row was read, else the error of the first bad row
RECURSIVE ParseRows(_, _, _, _, _)
ParseRows(lines, width, height, y, tiles) ==
    IF y >= height THEN Ok(LevelData(width, height, tiles))
    ELSE IF y + 1 >= Len(lines) THEN Err("Insufficient tile data")
    ELSE LET row_data == ParseRow(lines[y + 2])
         IN IF row_data = None THEN Err("invalid digit found in string")
            ELSE ParseRows(lines, width, height, y + 1, Append(tiles, row_data[1]))

parse_level_text(text) ==
    LET lines == StrLines(text)
    IN IF lines = <<>> THEN Err("Empty level file")
       ELSE LET dimensions == Split(lines[1], ",")
                width == ParseU32(dimensions[1])
            IN IF width = None THEN Err("invalid digit found in string")
               ELSE IF Len(dimensions) < 2 THEN Panic
               ELSE LET height == ParseU32(dimensions[2])
                    IN IF height = None THEN Err("invalid digit found in string")
                       ELSE ParseRows(lines, width[1], height[1], 0, <<>>)

\* save_level_to_file without the newline after each row
save_level_text_unterminated(level) ==
    U32ToString(level.width) \o <<",">> \o U32ToString(level.height) \o <<"\n">>
    \o Concat([y \in 1..Len(level.tiles) |->
                  Join([x \in 1..Len(level.tiles[y]) |-> U32ToString(level.tiles[y][x])], ",")])

save_level_text(level) ==
    U32ToString(level.width) \o <<",">> \o U32ToString(level.height) \o <<"\n">>
    \o Concat([y \in 1..Len(level.tiles) |->
                  Join([x \in 1..Len(level.tiles[y]) |-> U32ToString(level.tiles[y][x])], ",")
                  \o <<"\n">>])

-----------------------------------------------------------------------------
(* level_parser.rs: symbol format *)

\* a character outside ASCII, two bytes long in UTF-8
WideChar == "U+00E9"

\* str::len counts bytes
Utf8Len(c) == IF c = WideChar THEN 2 ELSE 1

RECURSIVE StrLen(_)
StrLen(s) == IF s = <<>> THEN 0 ELSE Utf8Len(Head(s)) + StrLen(Tail(s))

\* LevelSymbolMap::new: the `symbols` table
DefaultSymbols ==
    [c \in {".", "G", "S", "B", "R", "P", "W", "M", "F", "T", "C",
            "^", "~", "L", "#", "=", "|", "+", "*"} |->
        CASE c = "." -> 255
          [] c = "G" -> 180
          [] c = "S" -> 176
          [] c = "B" -> 184
          [] c = "R" -> 177
          [] c = "P" -> 181
          [] c = "W" -> 182
          [] c = "M" -> 183
          [] c = "F" -> 183
          [] c = "T" -> 185
          [] c = "C" -> 187
          [] c = "^" -> 188
          [] c = "~" -> 189
          [] c = "L" -> 190
          [] c = "#" -> 176
          [] c = "=" -> 181
          [] c = "|" -> 176
          [] c = "+" -> 184
          [] c = "*" -> 187]

\* LevelSymbolMap::get_tile
get_tile(symbols, c) == IF c \in DOMAIN symbols THEN Some(symbols[c]) ELSE None

StartsWithComment(s) == Len(s) >= 2 /\ s[1] = "/" /\ s[2] = "/"

\* the filter of parse_level_from_symbols_with_map and validate_symbol_level
KeptLine(line) == Trim(line) # <<>> /\ ~StartsWithComment(Trim(line))

KeptLines(text) == SelectSeq(StrLines(text), KeptLine)

RECURSIVE MaxStrLen(_)
MaxStrLen(lines) ==
    IF lines = <<>> THEN 0 ELSE Max(StrLen(Head(lines)), MaxStrLen(Tail(lines)))

parse_level_from_symbols_with_map(text, symbols) ==
    LET lines == KeptLines(text)
    IN IF lines = <<>> THEN Err("Empty level file")
       ELSE LET height == Len(lines)
                width == MaxStrLen(lines)
                tiles == [y \in 1..height |-> [x \in 1..width |->
                            IF x <= Len(lines[y])
                            THEN LET t == get_tile(symbols, lines[y][x])
                                 IN IF t = None THEN 255 ELSE t[1]
                            ELSE 255]]
            IN Ok(LevelData(width, height, tiles))

parse_level_from_symbols(text) == parse_level_from_symbols_with_map(text, DefaultSymbols)

-----------------------------------------------------------------------------
(* tiled_loader.rs: Tiled maps *)

\* create_tile_mapping
create_tile_mapping ==
    [t \in 0..7 |-> CASE t = 0 -> 180 [] t = 1 -> 176 [] t = 2 -> 184 [] t = 3 -> 181
                      [] t = 4 -> 182 [] t = 5 -> 183 [] t = 6 -> 185 [] t = 7 -> 187]

\* layers.iter().find(|layer| layer.layer_type == "tilelayer")
FindTileLayer(layers) ==
    IF \E i \in 1..Len(layers) : layers[i].layer_type = "tilelayer"
    THEN Some(layers[CHOOSE i \in 1..Len(layers) :
                        /\ layers[i].layer_type = "tilelayer"
                        /\ \A j \in 1..(i - 1) : layers[j].layer_type # "tilelayer"])
    ELSE None

tiled_map_to_level_data(tiled_map) ==
    LET main_layer == FindTileLayer(tiled_map.layers)
    IN IF main_layer = None THEN Err("No tile layer found in Tiled map")
       ELSE LET data == main_layer[1].data
                tiles == [y \in 1..tiled_map.height |-> [x \in 1..tiled_map.width |->
                            LET index == (y - 1) * tiled_map.width + (x - 1)
                            IN IF index < Len(data)
                               THEN IF data[index + 1] > 0 THEN data[index + 1] - 1 ELSE 255
                               ELSE 255]]
            IN Ok(LevelData(tiled_map.width, tiled_map.height, tiles))

\* tiled_map_to_level_data_with_mapping looking up the id before the shift
tiled_map_to_level_data_with_mapping_unshifted(tiled_map, tile_mapping) ==
    LET main_layer == FindTileLayer(tiled_map.layers)
    IN IF main_layer = None THEN Err("No tile layer found in Tiled map")
       ELSE LET data == main_layer[1].data
                tiles == [y \in 1..tiled_map.height |-> [x \in 1..tiled_map.width |->
                            LET index == (y - 1) * tiled_map.width + (x - 1)
                            IN IF index < Len(data)
                               THEN IF data[index + 1] > 0
                                    THEN LET normalized_id == data[index + 1] - 1
                                         IN IF data[index + 1] \in DOMAIN tile_mapping
                                            THEN tile_mapping[data[index + 1]]
                                            ELSE normalized_id
                                    ELSE 255
                               ELSE 255]]
            IN Ok(LevelData(tiled_map.width, tiled_map.height, tiles))

tiled_map_to_level_data_with_mapping(tiled_map, tile_mapping) ==
    LET main_layer == FindTileLayer(tiled_map.layers)
    IN IF main_layer = None THEN Err("No tile layer found in Tiled map")
       ELSE LET data == main_layer[1].data
                tiles == [y \in 1..tiled_map.height |-> [x \in 1..tiled_map.width |->
                            LET index == (y - 1) * tiled_map.width + (x - 1)
                            IN IF index < Len(data)
                               THEN IF data[index + 1] > 0
                                    THEN LET normalized_id == data[index + 1] - 1
                                         IN IF normalized_id \in DOMAIN tile_mapping
                                            THEN tile_mapping[normalized_id]
                                            ELSE normalized_id
                                    ELSE 255
                               ELSE 255]]
            IN Ok(LevelData(tiled_map.width, tiled_map.height, tiles))

-----------------------------------------------------------------------------
(* level_editor.rs: the LevelEditor resource *)

\* impl Default for LevelEditor
LevelEditorDefault ==
    [enabled |-> FALSE, current_tile |-> 180, brush_size |-> 1, show_ui |-> TRUE]

NoInput == [keys |-> {}, left |-> FALSE, right |-> FALSE, cursor |-> None]

\* the editor is not part of the importer specifications
EditorIdle ==
    /\ editor = LevelEditorDefault
    /\ entities = EmptyBag
    /\ input = NoInput
    /\ pending = {}
    /\ frame_start = LevelEditorDefault
    /\ panicked = FALSE

-----------------------------------------------------------------------------
(* The importers applied to bounded inputs *)

CsvChars == {"1", "2", ",", "\n", " ", "x"}

SymChars == {"G", ".", "/", " ", "\n", WideChar}

TiledLayers ==
    [layer_type : {"tilelayer"}, data : SeqsUpTo({0, 2}, MaxTiledData)]
    \cup [layer_type : {"objectgroup"}, data : {<<>>}]

TiledMaps ==
    [width : 0..MaxTiledDim, height : 0..MaxTiledDim,
     layers : SeqsUpTo(TiledLayers, MaxTiledLayers)]

NoMap == [width |-> 0, height |-> 0, layers |-> <<>>]

ImportSources ==
    [kind : {"csv"}, text : SeqsUpTo(CsvChars, MaxTextLen), map : {NoMap}, mapping : {<<>>}]
    \cup [kind : {"symbols"}, text : SeqsUpTo(SymChars, MaxTextLen), map : {NoMap}, mapping : {<<>>}]
    \cup [kind : {"tiled"}, text : {<<>>}, map : TiledMaps, mapping : {<<>>}]
    \cup [kind : {"tiled_mapped"}, text : {<<>>}, map : TiledMaps,
          mapping : {<<>>, create_tile_mapping}]

NoSource == [kind |-> "none", text |-> <<>>, map |-> NoMap, mapping |-> <<>>]

ImportInit ==
    /\ source \in ImportSources
    /\ result = NotRun
    /\ level_data = None
    /\ file = None
    /\ EditorIdle

ParseLevelText ==
    /\ source.kind = "csv"
    /\ result = NotRun
    /\ result' = parse_level_text(source.text)
    /\ UNCHANGED <<source, editor, level_data, entities, file, input, pending, frame_start, panicked>>

ParseLevelFromSymbols ==
    /\ source.kind = "symbols"
    /\ result = NotRun
    /\ result' = parse_level_from_symbols(source.text)
    /\ UNCHANGED <<source, editor, level_data, entities, file, input, pending, frame_start, panicked>>

TiledMapToLevelData ==
    /\ source.kind = "tiled"
    /\ result = NotRun
    /\ result' = tiled_map_to_level_data(source.map)
    /\ UNCHANGED <<source, editor, level_data, entities, file, input, pending, frame_start, panicked>>

TiledMapToLevelDataWithMapping ==
    /\ source.kind = "tiled_mapped"
    /\ result = NotRun
    /\ result' = tiled_map_to_level_data_with_mapping(source.map, source.mapping)
    /\ UNCHANGED <<source, editor, level_data, entities, file, input, pending, frame_start, panicked>>

ImportNext ==
    \/ ParseLevelText
    \/ ParseLevelFromSymbols
    \/ TiledMapToLevelData
    \/ TiledMapToLevelDataWithMapping

SpecImport == ImportInit /\ [][ImportNext]_vars

-----------------------------------------------------------------------------
(* CSV save followed by load, on bounded levels *)

SavedTiles == {0, 10, 255}

ValidLevels ==
    UNION {{LevelData(w, h, t) : t \in [1..h -> [1..w -> SavedTiles]]} :
              <<w, h>> \in (1..MaxWidth) \X (1..MaxHeight)}

\* load_level_from_file: read_to_string fails when there is no file
load_level_from_file(f) ==
    IF f = None THEN Err("No such file or directory") ELSE parse_level_text(f[1])

CsvInit ==
    /\ source = NoSource
    /\ result = NotRun
    /\ level_data \in {Some(l) : l \in ValidLevels}
    /\ file = None
    /\ EditorIdle

\* save_level_to_file; a failing fs::write returns Err and leaves the file as it was
SaveLevelToFile ==
    /\ level_data # None
    /\ file = None
    /\ file' = Some(save_level_text(level_data[1]))
    /\ UNCHANGED <<source, result, editor, level_data, entities, input, pending, frame_start, panicked>>

LoadLevelFromFile ==
    /\ result' = load_level_from_file(file)
    /\ UNCHANGED <<source, editor, level_data, entities, file, input, pending, frame_start, panicked>>

CsvNext == SaveLevelToFile \/ LoadLevelFromFile

SpecCsv == CsvInit /\ [][CsvNext]_vars

-----------------------------------------------------------------------------
(* Claims about the importers *)

GridShape(level) ==
    /\ Len(level.tiles) = level.height
    /\ \A y \in 1..Len(level.tiles) : Len(level.tiles[y]) = level.width

IsDecimal(token) ==
    /\ token # <<>>
    /\ \A i \in 1..Len(token) : token[i] \in DigitChars

\* the CSV layout: a header `width,height`, then exactly `height` rows of
\* exactly `width` decimal unsigned integers
CsvWellFormed(text) ==
    LET lines == StrLines(text)
    IN /\ lines # <<>>
       /\ LET header == Split(lines[1], ",")
          IN /\ Len(header) = 2
             /\ IsDecimal(Trim(header[1]))
             /\ IsDecimal(Trim(header[2]))
             /\ Len(lines) - 1 = DigitsValue(Trim(header[2]))
             /\ \A y \in 2..Len(lines) :
                   LET row == Split(lines[y], ",")
                   IN /\ Len(row) = DigitsValue(Trim(header[1]))
                      /\ \A x \in 1..Len(row) : IsDecimal(Trim(row[x]))

\* C1: every LevelData an importer returns as Ok has `height` rows of
\* `width` cells each.
C1_ImportedGridShape ==
    result.status = "Ok" => GridShape(result.level[1])

\* the CSV parser returned a level of width 2 whose only row has one cell
C1_Violation ==
    /\ source.kind = "csv"
    /\ source.text = <<"2", ",", "1", "\n", "2">>
    /\ result.status = "Ok"
    /\ result.level[1].width = 2
    /\ result.level[1].tiles = <<<<2>>>>

\* C3: the CSV parser returns an error for every text that is not a
\* `width,height` header followed by exactly `height` rows of exactly `width`
\* decimal unsigned integers, and Ok only for text of that shape.
C3_CsvRejectsMalformed ==
    (source.kind = "csv" /\ result # NotRun) =>
        /\ (~CsvWellFormed(source.text) => result.status = "Err")
        /\ (result.status = "Ok" => CsvWellFormed(source.text))

\* the CSV parser returned Ok for a row of one integer under a header of
\* width 2
C3_Violation ==
    /\ source.kind = "csv"
    /\ source.text = <<"2", ",", "1", "\n", "1">>
    /\ ~CsvWellFormed(source.text)
    /\ result.status = "Ok"

\* C4: no importer panics: each finishes by returning Ok or Err.
C4_NoParserPanics ==
    result # NotRun => result.status \in {"Ok", "Err"}

\* the CSV parser aborted on a header without a comma
C4_Violation ==
    /\ source.kind = "csv"
    /\ source.text = <<"2">>
    /\ result = Panic

\* C2: parsing the text that save_level_to_file wrote for a valid level
\* returns a level equal to it in width, height and every cell.
C2_CsvRoundTrip ==
    [][(file # None /\ result' # result) =>
          /\ result'.status = "Ok"
          /\ result'.level[1].width = level_data[1].width
          /\ result'.level[1].height = level_data[1].height
          /\ result'.level[1].tiles = level_data[1].tiles]_vars

\* a 2 x 2 level with a multi-digit tile and a zero tile came back from the file
C2_Witness ==
    /\ file # None
    /\ result.status = "Ok"
    /\ level_data[1].width = 2
    /\ level_data[1].height = 2
    /\ level_data[1].tiles[1] = <<0, 255>>
    /\ level_data[1].tiles[2] = <<10, 0>>
    /\ result.level = level_data

-----------------------------------------------------------------------------
(* constants.rs and level_loader.rs: tiles, collision classes, the spawner *)

TILE_SIZE_16 == 16

TILESET_TILE_SIZE == 16

TILESET_WIDTH == 256

TILES_PER_ROW == TILESET_WIDTH \div TILESET_TILE_SIZE

GRASS_TILES == <<177, 178, 179, 180>>

STONE_TILES == <<16, 17, 18, 19>>

BRICK_TILES == <<20, 21, 22, 23>>

ROCK_TILES == <<4, 5, 6, 7>>

WOOD_PLATFORMS == <<32, 33, 34, 35>>

STONE_PLATFORMS == <<48, 49, 50, 51>>

METAL_PLATFORMS == <<64, 65, 66, 67>>

SPIKES == <<80, 81>>

Elems(seq) == {seq[i] : i \in 1..Len(seq)}

create_collision_map ==
    [solid_tiles |-> Elems(GRASS_TILES) \cup Elems(STONE_TILES) \cup Elems(BRICK_TILES)
                     \cup Elems(ROCK_TILES) \cup Elems(SPIKES),
     platform_tiles |-> Elems(WOOD_PLATFORMS) \cup Elems(STONE_PLATFORMS)
                        \cup Elems(METAL_PLATFORMS)]

\* Collider::cuboid(hx, hy)
Cuboid(hx, hy) == Some(<<hx, hy>>)

\* the collider both spawn functions insert for a tile index
ColliderFor(tile_index, collision_map) ==
    IF tile_index \in collision_map.solid_tiles
    THEN Cuboid(TILE_SIZE_16 \div 2, TILE_SIZE_16 \div 2)
    ELSE IF tile_index \in collision_map.platform_tiles
         THEN Cuboid(TILE_SIZE_16 \div 2, TILE_SIZE_16 \div 4)
         ELSE None

\* spawn_tile_at_position: Sprite, Transform, TileIndex and maybe a Collider
spawn_tile_at_position(tile_index, position, collision_map) ==
    [x |-> position[1], y |-> position[2],
     index |-> tile_index,
     tileset_x |-> tile_index % TILES_PER_ROW,
     tileset_y |-> tile_index \div TILES_PER_ROW,
     collider |-> ColliderFor(tile_index, collision_map),
     editor_tile |-> FALSE]

\* world position of the grid cell <<x, y>> (both from 0)
WorldTilePos(cell) == <<cell[1] * TILE_SIZE_16, -(cell[2] * TILE_SIZE_16)>>

Cells(level) == (0..(level.width - 1)) \X (0..(level.height - 1))

TileAt(level, cell) == level.tiles[cell[2] + 1][cell[1] + 1]

\* spawn_level_tiles: one entity for every cell that is not EMPTY_TILE
spawn_level_tiles(level, collision_map) ==
    SetToBag({spawn_tile_at_position(TileAt(level, c), WorldTilePos(c), collision_map) :
                 c \in {d \in Cells(level) : TileAt(level, d) # EMPTY_TILE}})

\* create_default_level at the size of the model: stone in the last row,
\* grass above it with the variant tile on every fifth column, air elsewhere
create_default_level(width, height) ==
    LevelData(width, height,
        [y \in 1..height |-> [x \in 1..width |->
            IF y = height THEN STONE_TILES[1]
            ELSE IF y = height - 1
                 THEN IF (x - 1) % 5 = 0 /\ x < width THEN GRASS_TILES[2] ELSE GRASS_TILES[1]
                 ELSE EMPTY_TILE]])

\* an all-empty level
EmptyLevel(width, height) ==
    LevelData(width, height, [y \in 1..height |-> [x \in 1..width |-> EMPTY_TILE]])

-----------------------------------------------------------------------------
(* level_editor.rs: the editor systems *)

\* spawn_editor_tile: as spawn_tile_at_position, plus the EditorTile marker
spawn_editor_tile(tile_index, position, collision_map) ==
    [x |-> position[1], y |-> position[2],
     index |-> tile_index,
     tileset_x |-> tile_index % TILES_PER_ROW,
     tileset_y |-> tile_index \div TILES_PER_ROW,
     collider |-> ColliderFor(tile_index, collision_map),
     editor_tile |-> TRUE]

toggle_level_editor(ed, keys) ==
    LET e1 == IF "F1" \in keys THEN [ed EXCEPT !.enabled = ~ed.enabled] ELSE ed
    IN IF e1.enabled /\ "KeyH" \in keys
       THEN [e1 EXCEPT !.show_ui = ~e1.show_ui]
       ELSE e1

\* u32 subtraction and addition as the release build computes them
U32Modulus == 65536 * 65536

U32Sub(a, b) == IF a >= b THEN a - b ELSE (a - b) + U32Modulus

\* the nine `if input.just_pressed(KeyCode::DigitN)` statements, in order
SelectTile(current_tile, keys) ==
    LET t1 == IF "Digit1" \in keys THEN 180 ELSE current_tile
        t2 == IF "Digit2" \in keys THEN 176 ELSE t1
        t3 == IF "Digit3" \in keys THEN 184 ELSE t2
        t4 == IF "Digit4" \in keys THEN 181 ELSE t3
        t5 == IF "Digit5" \in keys THEN 182 ELSE t4
        t6 == IF "Digit6" \in keys THEN 183 ELSE t5
        t7 == IF "Digit7" \in keys THEN 185 ELSE t6
        t8 == IF "Digit8" \in keys THEN 187 ELSE t7
    IN IF "Digit9" \in keys THEN 255 ELSE t8

\* the brush statements without the upper clamp
BrushSize_unclamped(brush_size, keys) ==
    LET b1 == IF "BracketLeft" \in keys THEN Max(U32Sub(brush_size, 1), 1) ELSE brush_size
    IN IF "BracketRight" \in keys THEN b1 + 1 ELSE b1

\* the two brush statements, in order
BrushSize(brush_size, keys) ==
    LET b1 == IF "BracketLeft" \in keys THEN Max(U32Sub(brush_size, 1), 1) ELSE brush_size
    IN IF "BracketRight" \in keys THEN Min(b1 + 1, 5) ELSE b1

level_editor_input(ed, keys) ==
    LET e1 == IF "F1" \in keys THEN [ed EXCEPT !.enabled = ~ed.enabled] ELSE ed
    IN IF ~e1.enabled THEN e1
       ELSE [e1 EXCEPT !.current_tile = SelectTile(e1.current_tile, keys),
                       !.brush_size = BrushSize(e1.brush_size, keys)]

\* the brush square with the brush size as its radius
BrushCells_wide(level, world_pos, brush_size) ==
    LET center_x == world_pos[1] \div TILE_SIZE_16
        center_y == (-world_pos[2]) \div TILE_SIZE_16
        brush_radius == brush_size
    IN {c \in ((center_x - brush_radius)..(center_x + brush_radius))
               \X ((center_y - brush_radius)..(center_y + brush_radius)) :
           /\ c[1] >= 0 /\ c[1] < level.width
           /\ c[2] >= 0 /\ c[2] < level.height}

\* the in-level cells of the brush square around the cell under world_pos
BrushCells(level, world_pos, brush_size) ==
    LET center_x == world_pos[1] \div TILE_SIZE_16
        center_y == (-world_pos[2]) \div TILE_SIZE_16
        brush_radius == brush_size \div 2
    IN {c \in ((center_x - brush_radius)..(center_x + brush_radius))
               \X ((center_y - brush_radius)..(center_y + brush_radius)) :
           /\ c[1] >= 0 /\ c[1] < level.width
           /\ c[2] >= 0 /\ c[2] < level.height}

\* transform.translation.distance(world_tile_pos) < TILE_SIZE_16 / 2.0
Near(entity, pos) ==
    LET dx == entity.x - pos[1]
        dy == entity.y - pos[2]
    IN 4 * (dx * dx + dy * dy) < TILE_SIZE_16 * TILE_SIZE_16

SetCells(level, cells, tile_index) ==
    [level EXCEPT !.tiles =
        [y \in 1..Len(level.tiles) |-> [x \in 1..Len(level.tiles[y]) |->
            IF <<x - 1, y - 1>> \in cells THEN tile_index ELSE level.tiles[y][x]]]]

\* place_tile_at_world_pos: the new grid, the queued despawns (entities of
\* the query) and the queued spawns
place_tile_at_world_pos(level, world_pos, tile_index, brush_size, collision_map, existing_tiles) ==
    LET cells == BrushCells(level, world_pos, brush_size)
    IN [level |-> SetCells(level, cells, tile_index),
        despawned |-> {e \in existing_tiles : \E c \in cells : Near(e, WorldTilePos(c))},
        spawned |-> IF tile_index # 255
                    THEN SetToBag({spawn_editor_tile(tile_index, WorldTilePos(c), collision_map) :
                                      c \in cells})
                    ELSE EmptyBag]

\* remove_tile_at_world_pos: the new grid and the queued despawns
remove_tile_at_world_pos(level, world_pos, brush_size, existing_tiles) ==
    LET cells == BrushCells(level, world_pos, brush_size)
    IN [level |-> SetCells(level, cells, 255),
        despawned |-> {e \in existing_tiles : \E c \in cells : Near(e, WorldTilePos(c))}]

\* level_editor_mouse without the early return of a disabled editor
level_editor_mouse_unguarded(ed, inp, lvl, ents) ==
    IF lvl = None \/ inp.cursor = None
    THEN [level_data |-> lvl, entities |-> ents]
    ELSE LET existing_tiles == {e \in BagToSet(ents) : e.editor_tile}
             placed == IF inp.left
                       THEN place_tile_at_world_pos(lvl[1], inp.cursor[1], ed.current_tile,
                                ed.brush_size, create_collision_map, existing_tiles)
                       ELSE [level |-> lvl[1], despawned |-> {}, spawned |-> EmptyBag]
             removed == IF inp.right
                        THEN remove_tile_at_world_pos(placed.level, inp.cursor[1],
                                 ed.brush_size, existing_tiles)
                        ELSE [level |-> placed.level, despawned |-> {}]
             gone == placed.despawned \cup removed.despawned
             kept == [e \in (BagToSet(ents) \ gone) |-> ents[e]]
         IN [level_data |-> Some(removed.level), entities |-> kept (+) placed.spawned]

\* level_editor_mouse followed by the application of its queued commands.
\* The query existing_tiles is the world as it was when the system started:
\* entities with the EditorTile marker, without this run's spawns.  A cursor
\* of None stands for a cursor outside the window and for a failing
\* viewport_to_world_2d.
level_editor_mouse(ed, inp, lvl, ents) ==
    IF ~ed.enabled \/ lvl = None \/ inp.cursor = None
    THEN [level_data |-> lvl, entities |-> ents]
    ELSE LET existing_tiles == {e \in BagToSet(ents) : e.editor_tile}
             placed == IF inp.left
                       THEN place_tile_at_world_pos(lvl[1], inp.cursor[1], ed.current_tile,
                                ed.brush_size, create_collision_map, existing_tiles)
                       ELSE [level |-> lvl[1], despawned |-> {}, spawned |-> EmptyBag]
             removed == IF inp.right
                        THEN remove_tile_at_world_pos(placed.level, inp.cursor[1],
                                 ed.brush_size, existing_tiles)
                        ELSE [level |-> placed.level, despawned |-> {}]
             gone == placed.despawned \cup removed.despawned
             kept == [e \in (BagToSet(ents) \ gone) |-> ents[e]]
         IN [level_data |-> Some(removed.level), entities |-> kept (+) placed.spawned]

\* level_editor_save_load: the file afterwards, what load_level_from_file
\* returned to the Load branch, and whether the parser panicked.  The level
\* that Load parses is bound to _loaded_level and dropped.
level_editor_save_load(ed, keys, lvl, f, write_ok) ==
    IF ~ed.enabled \/ lvl = None
    THEN [file |-> f, loaded |-> NotRun, panicked |-> FALSE]
    ELSE LET written == IF "KeyS" \in keys /\ write_ok
                        THEN Some(save_level_text(lvl[1]))
                        ELSE f
             _loaded_level == IF "KeyL" \in keys THEN load_level_from_file(written) ELSE NotRun
         IN [file |-> written, loaded |-> _loaded_level,
             panicked |-> _loaded_level.status = "Panic"]

-----------------------------------------------------------------------------
(* The editor as a state machine: frames of input, systems in any order *)

EditorSystems ==
    {"toggle_level_editor", "level_editor_input", "level_editor_mouse",
     "level_editor_save_load"}

\* world positions of the pointer: inside every cell, and up-left of the level
Pointers ==
    {<<TILE_SIZE_16 * gx + 5, -(TILE_SIZE_16 * gy) - 3>> :
        <<gx, gy>> \in (0..(LevelW - 1)) \X (0..(LevelH - 1))}
    \cup {<<-5, 5>>}

KeySets(universe) == {ks \in SUBSET universe : Cardinality(ks) <= MaxKeys}

Cursors == {None} \cup {Some(p) : p \in Pointers}

Inputs(keys, lefts, rights) ==
    {i \in [keys : KeySets(keys), left : lefts, right : rights, cursor : Cursors] :
        (~i.left /\ ~i.right) => i.cursor = None}

\* the levels the game starts on
InitLevels == {create_default_level(LevelW, LevelH), EmptyLevel(LevelW, LevelH)}

\* what assets/levels/editor_level.csv may hold when the game starts: nothing,
\* text that is no level, a header without a height
InitFiles == {None, Some(<<"x">>), Some(<<"1">>)}

\* setup_level_editor and load_level have run; the LevelData resource, when
\* the app inserts one, is the level whose tiles load_level spawned
EditorInit(levels, files) ==
    /\ source = NoSource
    /\ result = NotRun
    /\ editor = LevelEditorDefault
    /\ \E l \in levels :
          /\ level_data \in {None, Some(l)}
          /\ entities = spawn_level_tiles(l, create_collision_map)
    /\ file \in files
    /\ input = NoInput
    /\ pending = {}
    /\ frame_start = LevelEditorDefault
    /\ panicked = FALSE

\* the input of one frame is sampled before the systems of the frame run;
\* no parser has returned anything in the frame yet
BeginFrame(inputs) ==
    /\ ~panicked
    /\ pending = {}
    /\ input' \in inputs
    /\ pending' = EditorSystems
    /\ frame_start' = editor
    /\ result' = NotRun
    /\ UNCHANGED <<source, editor, level_data, entities, file, panicked>>

RunToggleLevelEditor ==
    /\ ~panicked
    /\ "toggle_level_editor" \in pending
    /\ editor' = toggle_level_editor(editor, input.keys)
    /\ pending' = pending \ {"toggle_level_editor"}
    /\ UNCHANGED <<source, result, level_data, entities, file, input, frame_start, panicked>>

RunLevelEditorInput ==
    /\ ~panicked
    /\ "level_editor_input" \in pending
    /\ editor' = level_editor_input(editor, input.keys)
    /\ pending' = pending \ {"level_editor_input"}
    /\ UNCHANGED <<source, result, level_data, entities, file, input, frame_start, panicked>>

RunLevelEditorMouse ==
    /\ ~panicked
    /\ "level_editor_mouse" \in pending
    /\ LET after == level_editor_mouse(editor, input, level_data, entities)
       IN /\ level_data' = after.level_data
          /\ entities' = after.entities
    /\ pending' = pending \ {"level_editor_mouse"}
    /\ UNCHANGED <<source, result, editor, file, input, frame_start, panicked>>

\* a failing fs::write is logged and leaves the file as it was
RunLevelEditorSaveLoad ==
    /\ ~panicked
    /\ "level_editor_save_load" \in pending
    /\ \E write_ok \in BOOLEAN :
          LET after == level_editor_save_load(editor, input.keys, level_data, file, write_ok)
          IN /\ file' = after.file
             /\ result' = IF after.loaded = NotRun THEN result ELSE after.loaded
             /\ panicked' = after.panicked
    /\ pending' = pending \ {"level_editor_save_load"}
    /\ UNCHANGED <<source, editor, level_data, entities, input, frame_start>>

RunSystems ==
    \/ RunToggleLevelEditor
    \/ RunLevelEditorInput
    \/ RunLevelEditorMouse
    \/ RunLevelEditorSaveLoad

\* painting and erasing: F1 and the mouse
PaintInputs == Inputs({"F1"}, BOOLEAN, BOOLEAN)

SamplePaintInput == BeginFrame(PaintInputs)

EditorNext == SamplePaintInput \/ RunSystems

SpecEditor == EditorInit(InitLevels, {None}) /\ [][EditorNext]_vars

\* saving and loading between paints
SaveLoadInputs == Inputs({"F1", "KeyS", "KeyL"}, BOOLEAN, {FALSE})

SampleSaveLoadInput == BeginFrame(SaveLoadInputs)

SaveLoadNext == SampleSaveLoadInput \/ RunSystems

SpecSaveLoad == EditorInit(InitLevels, InitFiles) /\ [][SaveLoadNext]_vars

\* the keyboard, and in frames without F1 the mouse over the first cell
KeyboardInputs ==
    {i \in Inputs({"F1", "KeyH", "Digit2", "BracketLeft", "BracketRight", "KeyS", "KeyL"},
                  BOOLEAN, BOOLEAN) :
        /\ i.cursor \in {None, Some(<<5, -3>>)}
        /\ (i.left \/ i.right) => i.cursor # None
        /\ "F1" \in i.keys => (~i.left /\ ~i.right)}

SampleKeyboardInput == BeginFrame(KeyboardInputs)

KeyboardNext == SampleKeyboardInput \/ RunSystems

SpecKeyboard == EditorInit({create_default_level(LevelW, LevelH)}, {None}) /\ [][KeyboardNext]_vars

-----------------------------------------------------------------------------
(* Claims about the editor *)

\* number of tile entities centred on a world position
CountAt(ents, pos) ==
    LET here == {e \in BagToSet(ents) : e.x = pos[1] /\ e.y = pos[2]}
    IN BagCardinality([e \in here |-> ents[e]])

\* the step in which a system of the frame runs
Runs(system) == system \in pending /\ system \notin pending'

\* C5: every grid cell has at most one tile entity centred on its world
\* coordinate, and a cell whose value is 255 has none.
C5_EntityGridConsistency ==
    level_data # None =>
        \A c \in Cells(level_data[1]) :
            /\ CountAt(entities, WorldTilePos(c)) <= 1
            /\ TileAt(level_data[1], c) = 255 => CountAt(entities, WorldTilePos(c)) = 0

\* an erase over a tile that load_level spawned has cleared the cell and left
\* the entity
C5_Violation ==
    /\ pending = {}
    /\ input.right /\ ~input.left
    /\ input.cursor = Some(<<5, -3>>)
    /\ level_data # None
    /\ TileAt(level_data[1], <<0, 0>>) = 255
    /\ CountAt(entities, <<0, 0>>) = 1

\* level_editor_mouse handles a Paint event and nothing else
PaintStep ==
    /\ Runs("level_editor_mouse")
    /\ editor.enabled
    /\ level_data # None
    /\ input.left /\ ~input.right
    /\ input.cursor # None

\* C6: a second Paint with the same tile, brush and pointer leaves the grid
\* and the tile entities as the first Paint left them, and after a Paint every
\* painted cell holds current_tile and, unless that is 255, exactly one
\* entity, which carries current_tile and its collider (solid for 180).
C6_PaintIdempotent ==
    [][PaintStep =>
          LET again == level_editor_mouse(editor, input, level_data', entities')
          IN /\ again.level_data = level_data'
             /\ again.entities = entities'
             /\ \A c \in BrushCells(level_data[1], input.cursor[1], editor.brush_size) :
                   /\ TileAt(level_data'[1], c) = editor.current_tile
                   /\ editor.current_tile # 255 =>
                         /\ CountAt(entities', WorldTilePos(c)) = 1
                         /\ \A e \in BagToSet(entities') :
                               (e.x = WorldTilePos(c)[1] /\ e.y = WorldTilePos(c)[2]) =>
                                   /\ e.index = editor.current_tile
                                   /\ e.index = 180 => e.collider = Cuboid(8, 8)]_vars

\* a Paint of tile 180 over a tile that load_level spawned has left two
\* entities on the cell
C6_Violation ==
    /\ pending = {}
    /\ input.left /\ ~input.right
    /\ input.cursor = Some(<<5, -3>>)
    /\ level_data # None
    /\ TileAt(level_data[1], <<0, 0>>) = 180
    /\ CountAt(entities, <<0, 0>>) = 2

\* the entities are exactly the tiles of a level
EntitiesMatch(ents, level) ==
    \A c \in Cells(level) :
        IF TileAt(level, c) = 255
        THEN CountAt(ents, WorldTilePos(c)) = 0
        ELSE /\ CountAt(ents, WorldTilePos(c)) = 1
             /\ \A e \in BagToSet(ents) :
                   (e.x = WorldTilePos(c)[1] /\ e.y = WorldTilePos(c)[2]) =>
                       e.index = TileAt(level, c)

\* level_editor_save_load handles a Load event
LoadStep ==
    /\ Runs("level_editor_save_load")
    /\ editor.enabled
    /\ level_data # None
    /\ "KeyL" \in input.keys

\* C7: a Load of a well-formed file replaces LevelData with the parsed level
\* and resynchronises the tile entities to it; a Load that fails to read or
\* parse leaves LevelData and the entities unchanged.
C7_LoadReplacesLevel ==
    [][LoadStep =>
          LET loaded == load_level_from_file(file')
          IN IF loaded.status = "Ok"
             THEN /\ level_data' = loaded.level
                  /\ EntitiesMatch(entities', loaded.level[1])
             ELSE UNCHANGED <<level_data, entities>>]_vars

\* Load has parsed a level out of the file, the mouse system has not run
\* since, and LevelData is not the parsed level
C7_Violation ==
    /\ "level_editor_save_load" \notin pending
    /\ "level_editor_mouse" \in pending
    /\ "KeyL" \in input.keys
    /\ result.status = "Ok"
    /\ level_data # result.level

\* C8: while the editor is disabled, a frame without Toggle changes neither
\* current_tile, brush_size, show_ui, the grid, the saved file nor the entities.
C8_DisabledIgnoresEvents ==
    [][(~editor.enabled /\ "F1" \notin input.keys) =>
          /\ editor'.current_tile = editor.current_tile
          /\ editor'.brush_size = editor.brush_size
          /\ editor'.show_ui = editor.show_ui
          /\ UNCHANGED <<level_data, file, entities>>]_vars

\* every system has run in a frame of the disabled editor in which a tile
\* was selected, Save was pressed and both buttons were held over a cell
C8_Witness ==
    /\ pending = {}
    /\ ~editor.enabled
    /\ level_data # None
    /\ input.keys = {"Digit2", "KeyS"}
    /\ input.left /\ input.right /\ input.cursor = Some(<<5, -3>>)

\* C9: after a frame whose keyboard systems processed one F1, `enabled` is
\* the negation of what it was before the frame.
C9_ToggleFlipsOnce ==
    (pending = {} /\ "F1" \in input.keys) => editor.enabled = ~frame_start.enabled

\* both keyboard systems have handled the F1 of a frame and `enabled` is
\* what it was before the frame
C9_Violation ==
    /\ pending = {}
    /\ "F1" \in input.keys
    /\ editor.enabled = frame_start.enabled

\* C10: brush_size stays within 1..5.
C10_BrushSizeInRange ==
    editor.brush_size >= 1 /\ editor.brush_size <= 5

\* level_editor_input has handled an increase at 5 while the editor is on
C10_Witness ==
    /\ "level_editor_input" \notin pending
    /\ "toggle_level_editor" \in pending
    /\ editor.enabled
    /\ "BracketRight" \in input.keys
    /\ frame_start.brush_size = 5
    /\ editor.brush_size = 5

-----------------------------------------------------------------------------
(* level_templates.rs: place_template *)

MaxTemplateDim == 2  \* largest width / height of a template
TemplateLevelW == 3  \* widest level a template is placed in
TemplateLevelH == 2  \* tallest level a template is placed in

\* a u32 as its two 16-bit halves, so that a sum keeps its 32 bits
U32(n) == [hi |-> n \div 65536, lo |-> n % 65536]

U32_MAX == [hi |-> 65535, lo |-> 65535]

\* a + b on u32: the wrapped sum, and whether the sum left the 32 bits
U32Add(a, b) ==
    LET lo == a.lo + b.lo
        hi == a.hi + b.hi + (lo \div 65536)
    IN [value |-> [hi |-> hi % 65536, lo |-> lo % 65536], overflow |-> hi >= 65536]

U32Greater(a, b) == a.hi > b.hi \/ (a.hi = b.hi /\ a.lo > b.lo)

\* v[i as usize] does not panic
InBounds(i, len) == i.hi = 0 /\ i.lo < len

LevelTemplate(w, h, p) == [width |-> w, height |-> h, pattern |-> p]

Returned(b, level) == [returned |-> Some(b), level |-> level]

\* the thread unwinds; the &mut LevelData holds what was written so far
Panicked(level) == [returned |-> None, level |-> level]

\* the two loops of place_template from pattern cell (x, y) on.  With
\* overflow checks (debug profile) an overflowing `+` panics, without them
\* (release profile) it wraps.
RECURSIVE PlaceCells(_, _, _, _, _, _, _)
PlaceCells(level, template, start_x, start_y, overflow_checks, y, x) ==
    IF y >= Len(template.pattern) THEN Returned(TRUE, level)
    ELSE IF x >= Len(template.pattern[y + 1])
    THEN PlaceCells(level, template, start_x, start_y, overflow_checks, y + 1, 0)
    ELSE LET tile == template.pattern[y + 1][x + 1]
             world_x == U32Add(start_x, U32(x))
             world_y == U32Add(start_y, U32(y))
         IN IF overflow_checks /\ world_x.overflow THEN Panicked(level)
            ELSE IF overflow_checks /\ world_y.overflow THEN Panicked(level)
            ELSE IF tile = 255
            THEN PlaceCells(level, template, start_x, start_y, overflow_checks, y, x + 1)
            ELSE IF ~InBounds(world_y.value, Len(level.tiles)) THEN Panicked(level)
            ELSE IF ~InBounds(world_x.value, Len(level.tiles[world_y.value.lo + 1]))
            THEN Panicked(level)
            ELSE PlaceCells(
                     [level EXCEPT !.tiles[world_y.value.lo + 1][world_x.value.lo + 1] = tile],
                     template, start_x, start_y, overflow_checks, y, x + 1)

\* place_template; `||` evaluates its right operand only when the left is false
place_template(level, template, start_x, start_y, overflow_checks) ==
    LET end_x == U32Add(start_x, U32(template.width))
        end_y == U32Add(start_y, U32(template.height))
    IN IF overflow_checks /\ end_x.overflow THEN Panicked(level)
       ELSE IF U32Greater(end_x.value, U32(level.width)) THEN Returned(FALSE, level)
       ELSE IF overflow_checks /\ end_y.overflow THEN Panicked(level)
       ELSE IF U32Greater(end_y.value, U32(level.height)) THEN Returned(FALSE, level)
       ELSE PlaceCells(level, template, start_x, start_y, overflow_checks, 0, 0)

\* a level whose every cell holds `tile`
FilledLevel(width, height, tile) ==
    LevelData(width, height, [y \in 1..height |-> [x \in 1..width |-> tile]])

\* levels of stone (176)
TemplateLevels ==
    {FilledLevel(w, h, 176) : <<w, h>> \in (1..TemplateLevelW) \X (1..TemplateLevelH)}

\* templates of platform tiles (181) and transparent cells
Templates ==
    UNION {{LevelTemplate(w, h, p) : p \in [1..h -> [1..w -> {181, 255}]]} :
              <<w, h>> \in (1..MaxTemplateDim) \X (1..MaxTemplateDim)}

\* start coordinates: inside, at the edge, beyond it, and where a sum wraps
StartCoords == {U32(0), U32(1), U32(TemplateLevelW), U32_MAX}

PlaceInit ==
    /\ source \in [kind : {"place_template"}, template : Templates,
                   start_x : StartCoords, start_y : StartCoords,
                   overflow_checks : BOOLEAN]
    /\ result = NotRun
    /\ level_data \in {Some(l) : l \in TemplateLevels}
    /\ file = None
    /\ EditorIdle

\* result.level keeps the level as it was before the call
PlaceTemplate ==
    /\ result = NotRun
    /\ LET after == place_template(level_data[1], source.template, source.start_x,
                                   source.start_y, source.overflow_checks)
       IN /\ level_data' = Some(after.level)
          /\ result' = [status |-> IF after.returned = None THEN "Panic"
                                   ELSE IF after.returned[1] THEN "true" ELSE "false",
                        level |-> level_data,
                        err |-> ""]
    /\ UNCHANGED <<source, editor, entities, file, input, pending, frame_start, panicked>>

PlaceNext == PlaceTemplate

SpecPlace == PlaceInit /\ [][PlaceNext]_vars

-----------------------------------------------------------------------------
(* Claims about place_template *)

\* start + size <= limit, the sum taken as a mathematical integer
FitsIn(start, size, limit) ==
    LET end == U32Add(start, U32(size))
    IN ~end.overflow /\ ~U32Greater(end.value, U32(limit))

Fits(level, template, start_x, start_y) ==
    /\ FitsIn(start_x, template.width, level.width)
    /\ FitsIn(start_y, template.height, level.height)

\* C11: place_template returns true when x + T.width <= L.width and
\* y + T.height <= L.height as mathematical integers, and otherwise returns
\* false and leaves L unchanged.
C11_PlacementBounds ==
    (source.kind = "place_template" /\ result # NotRun) =>
        IF Fits(result.level[1], source.template, source.start_x, source.start_y)
        THEN result.status = "true"
        ELSE result.status = "false" /\ level_data = result.level

\* the release build returned true for a template that starts at column
\* u32::MAX, and wrote its second column into column 0
C11_Violation ==
    /\ source.kind = "place_template"
    /\ ~source.overflow_checks
    /\ source.start_x = U32_MAX /\ source.start_y = U32(0)
    /\ source.template = LevelTemplate(2, 1, <<<<255, 181>>>>)
    /\ result.status = "true"
    /\ level_data[1].tiles[1][1] = 181

\* the template cell that lands on level cell (cx, cy), if any
Covering(template, start_x, start_y, cx, cy) ==
    {<<px, py>> \in (0..(template.width - 1)) \X (0..(template.height - 1)) :
        /\ ~U32Add(start_x, U32(px)).overflow
        /\ U32Add(start_x, U32(px)).value = U32(cx)
        /\ ~U32Add(start_y, U32(py)).overflow
        /\ U32Add(start_y, U32(py)).value = U32(cy)}

\* C12: a place_template that returned true has set every level cell under
\* a template cell that is not 255 to the template's value and has left
\* every other cell as it was.
C12_TemplateTransparency ==
    (source.kind = "place_template" /\ result.status = "true") =>
        \A cx \in 0..(level_data[1].width - 1), cy \in 0..(level_data[1].height - 1) :
            LET over == {c \in Covering(source.template, source.start_x, source.start_y, cx, cy) :
                            source.template.pattern[c[2] + 1][c[1] + 1] # 255}
                before == result.level[1].tiles[cy + 1][cx + 1]
                after == level_data[1].tiles[cy + 1][cx + 1]
            IN IF over = {}
               THEN after = before
               ELSE \A c \in over : after = source.template.pattern[c[2] + 1][c[1] + 1]

\* the release build returned true for a template that starts at row
\* u32::MAX, and wrote its second row into row 0, outside the template
C12_Violation ==
    /\ source.kind = "place_template"
    /\ ~source.overflow_checks
    /\ source.start_x = U32(0) /\ source.start_y = U32_MAX
    /\ source.template = LevelTemplate(1, 2, <<<<255>>, <<181>>>>)
    /\ result.status = "true"
    /\ result.level[1].tiles[1][1] = 176
    /\ level_data[1].tiles[1][1] = 181

-----------------------------------------------------------------------------
(* Claims about the symbol format *)

\* the lines of a text that are neither blank nor a `//` comment once trimmed
SymbolLines(text) ==
    LET lines == StrLines(text)
        keep(l) == Trim(l) # <<>> /\ ~(Len(Trim(l)) >= 2 /\ SubSeq(Trim(l), 1, 2) = <<"/", "/">>)
    IN SelectSeq(lines, keep)

\* number of characters of the longest line
RECURSIVE MaxChars(_)
MaxChars(lines) == IF lines = <<>> THEN 0 ELSE Max(Len(Head(lines)), MaxChars(Tail(lines)))

\* the map's tile for a character, 255 for a character it does not have
TileOf(symbols, c) == IF c \in DOMAIN symbols THEN symbols[c] ELSE 255

\* C13: the symbol parser fails only when no line is left after dropping
\* blank and `//` lines; otherwise height is the number of kept lines, width
\* the number of characters of the longest kept line, and cell (x, y) the
\* map's tile for character x of kept line y, 255 to the right of a shorter
\* line and for a character that is not in the map.
C13_SymbolParsing ==
    (source.kind = "symbols" /\ result # NotRun) =>
        LET kept == SymbolLines(source.text)
        IN IF kept = <<>>
           THEN result.status = "Err"
           ELSE /\ result.status = "Ok"
                /\ result.level[1].height = Len(kept)
                /\ result.level[1].width = MaxChars(kept)
                /\ result.level[1].tiles =
                       [y \in 1..Len(kept) |-> [x \in 1..MaxChars(kept) |->
                           IF x <= Len(kept[y])
                           THEN TileOf(DefaultSymbols, kept[y][x])
                           ELSE 255]]

\* a line of one two-byte character was parsed into a level of width 2
C13_Violation ==
    /\ source.kind = "symbols"
    /\ source.text = <<WideChar>>
    /\ result.status = "Ok"
    /\ result.level[1].width = 2
    /\ result.level[1].tiles = <<<<255, 255>>>>

-----------------------------------------------------------------------------
(* level_parser.rs and tiled_loader.rs: validation *)

MaxValidatedData == 4    \* longest data array of a validated Tiled layer
MaxValidatedLayers == 2  \* most layers of a validated Tiled map

\* the thread panics (attempt to multiply with overflow)
Overflowed == [status |-> "Panic", level |-> None, err |-> "arithmetic overflow"]

\* Ok(())
Valid == [status |-> "Ok", level |-> None, err |-> ""]

\* format!("Line {} has different width than first line", i + 1)
WidthError(i) ==
    [message |-> "different width", line |-> Some(i + 1), column |-> None, ch |-> None]

\* format!("Unknown symbol '{}' at line {}, column {}", ch, i + 1, j + 1)
SymbolError(ch, i, j) ==
    [message |-> "Unknown symbol", line |-> Some(i + 1), column |-> Some(j + 1), ch |-> Some(ch)]

\* "Level contains no valid lines"
NoLinesError ==
    [message |-> "Level contains no valid lines", line |-> None, column |-> None, ch |-> None]

\* the body of the loop over the kept lines, for line i (0-based): the error
\* it returns, if any
ValidateLine(symbols, line, i, expected_width) ==
    IF StrLen(line) # expected_width THEN Some(WidthError(i))
    ELSE LET unknown == {j \in 1..Len(line) : get_tile(symbols, line[j]) = None}
         IN IF unknown = {} THEN None
            ELSE LET j == CHOOSE k \in unknown : \A m \in unknown : k <= m
                 IN Some(SymbolError(line[j], i, j - 1))

validate_symbol_level(text) ==
    LET lines == KeptLines(text)
    IN IF lines = <<>> THEN Err(NoLinesError)
       ELSE LET expected_width == StrLen(lines[1])
                errors == [i \in 1..Len(lines) |->
                              ValidateLine(DefaultSymbols, lines[i], i - 1, expected_width)]
                failing == {i \in 1..Len(lines) : errors[i] # None}
            IN IF failing = {} THEN Valid
               ELSE Err(errors[CHOOSE i \in failing : \A k \in failing : i <= k][1])

\* a * b for a, b < 2^16, as the two halves of the 32-bit product
Mul16(a, b) ==
    LET p1 == (a \div 256) * b
        p0 == (a % 256) * b
        lo == (p1 % 256) * 256 + p0
    IN [hi |-> (p1 \div 256) + (lo \div 65536), lo |-> lo % 65536]

\* a * b on u32: the wrapped product, and whether the product left the 32 bits
U32Mul(a, b) ==
    LET low == Mul16(a.lo, b.lo)
        c1 == Mul16(a.hi, b.lo)
        c2 == Mul16(a.lo, b.hi)
        hi == low.hi + c1.lo + c2.lo
    IN [value |-> [hi |-> hi % 65536, lo |-> low.lo],
        overflow |-> \/ (a.hi # 0 /\ b.hi # 0)
                     \/ c1.hi # 0 \/ c2.hi # 0 \/ hi >= 65536]

\* the body of the loop over the layers: what it returns for one layer, None
\* when the loop goes on
ValidateLayer(tiled_map, layer, overflow_checks) ==
    IF layer.layer_type # "tilelayer" THEN None
    ELSE IF layer.width # tiled_map.width \/ layer.height # tiled_map.height
    THEN Some(Err("inconsistent dimensions"))
    ELSE LET expected_data_length == U32Mul(U32(layer.width), U32(layer.height))
         IN IF overflow_checks /\ expected_data_length.overflow THEN Some(Overflowed)
            ELSE IF U32(Len(layer.data)) # expected_data_length.value
            THEN Some(Err("incorrect data length"))
            ELSE None

validate_tiled_map(tiled_map, overflow_checks) ==
    IF ~\E i \in 1..Len(tiled_map.layers) : tiled_map.layers[i].layer_type = "tilelayer"
    THEN Err("Map must contain at least one tile layer")
    ELSE LET returns == [i \in 1..Len(tiled_map.layers) |->
                            ValidateLayer(tiled_map, tiled_map.layers[i], overflow_checks)]
             returning == {i \in 1..Len(tiled_map.layers) : returns[i] # None}
         IN IF returning = {} THEN Valid
            ELSE returns[CHOOSE i \in returning : \A k \in returning : i <= k][1]

\* header sizes: small ones, and one whose square does not fit 32 bits
ValidatedDims == {1, 2, 65536}

\* layers of a map with a w x h header: the header's size or one more in a
\* direction, any data length
ValidatedLayers(w, h) ==
    [layer_type : {"tilelayer", "objectgroup"},
     width : {w, w + 1},
     height : {h, h + 1},
     data : {[i \in 1..n |-> 0] : n \in 0..MaxValidatedData}]

ValidatedMaps ==
    UNION {[width : {w}, height : {h},
            layers : SeqsUpTo(ValidatedLayers(w, h), MaxValidatedLayers)] :
              <<w, h>> \in ValidatedDims \X ValidatedDims}

ValidateSources ==
    [kind : {"validate_symbols"}, text : SeqsUpTo(SymChars, MaxTextLen),
     map : {NoMap}, overflow_checks : {FALSE}]
    \cup [kind : {"validate_tiled"}, text : {<<>>}, map : ValidatedMaps,
          overflow_checks : BOOLEAN]

ValidateInit ==
    /\ source \in ValidateSources
    /\ result = NotRun
    /\ level_data = None
    /\ file = None
    /\ EditorIdle

ValidateSymbolLevel ==
    /\ source.kind = "validate_symbols"
    /\ result = NotRun
    /\ result' = validate_symbol_level(source.text)
    /\ UNCHANGED <<source, editor, level_data, entities, file, input, pending,
                   frame_start, panicked>>

ValidateTiledMap ==
    /\ source.kind = "validate_tiled"
    /\ result = NotRun
    /\ result' = validate_tiled_map(source.map, source.overflow_checks)
    /\ UNCHANGED <<source, editor, level_data, entities, file, input, pending,
                   frame_start, panicked>>

ValidateNext == ValidateSymbolLevel \/ ValidateTiledMap

SpecValidate == ValidateInit /\ [][ValidateNext]_vars

-----------------------------------------------------------------------------
(* Claims about validation *)

\* 1-based numbers, in the input text, of the lines that SymbolLines keeps
SymbolLineNumbers(text) ==
    LET lines == StrLines(text)
    IN {n \in 1..Len(lines) :
           Trim(lines[n]) # <<>>
           /\ ~(Len(Trim(lines[n])) >= 2 /\ SubSeq(Trim(lines[n]), 1, 2) = <<"/", "/">>)}

\* kept lines exist, are equally long and hold only characters of the map
SymbolLevelValid(text) ==
    LET kept == SymbolLines(text)
    IN /\ kept # <<>>
       /\ \A y \in 1..Len(kept) :
             /\ Len(kept[y]) = Len(kept[1])
             /\ \A x \in 1..Len(kept[y]) : kept[y][x] \in DOMAIN DefaultSymbols

\* the error names a kept line of the input text by its number there, a
\* column of it, and the character at that column
ErrorLocates(text, e) ==
    /\ e.line # None /\ e.column # None /\ e.ch # None
    /\ e.line[1] \in SymbolLineNumbers(text)
    /\ e.column[1] \in 1..Len(StrLines(text)[e.line[1]])
    /\ StrLines(text)[e.line[1]][e.column[1]] = e.ch[1]

\* C14: validate_symbol_level returns Ok exactly when a kept line exists, the
\* kept lines are equally long and every character is in the default map;
\* otherwise it returns an error, which for a failing line carries the line
\* and column of the failure in the input text and the offending character.
C14_SymbolValidation ==
    (source.kind = "validate_symbols" /\ result # NotRun) =>
        IF SymbolLevelValid(source.text)
        THEN result.status = "Ok"
        ELSE /\ result.status = "Err"
             /\ SymbolLines(source.text) # <<>> => ErrorLocates(source.text, result.err)

\* the unknown character of the second line of the text was reported at
\* line 1
C14_Violation ==
    /\ source.kind = "validate_symbols"
    /\ source.text = <<"\n", "G", "/">>
    /\ result.status = "Err"
    /\ result.err.line = Some(1)
    /\ result.err.column = Some(2)
    /\ result.err.ch = Some("/")

\* C19: validate_tiled_map returns an error exactly when the map has no
\* layer of type tilelayer, or a tile layer's width or height differs from
\* the header, or a layer's data length differs from width * height.
C19_TiledValidation ==
    (source.kind = "validate_tiled" /\ result # NotRun) =>
        LET m == source.map
            product(l) == U32Mul(U32(l.width), U32(l.height))
            bad == \/ \A i \in 1..Len(m.layers) : m.layers[i].layer_type # "tilelayer"
                   \/ \E i \in 1..Len(m.layers) :
                         /\ m.layers[i].layer_type = "tilelayer"
                         /\ (m.layers[i].width # m.width \/ m.layers[i].height # m.height)
                   \/ \E i \in 1..Len(m.layers) :
                         \/ product(m.layers[i]).overflow
                         \/ product(m.layers[i]).value # U32(Len(m.layers[i].data))
        IN IF bad THEN result.status = "Err" ELSE result.status = "Ok"

\* the release build accepted a 65536 x 65536 map whose tile layer has no
\* data: the expected length wrapped to 0
C19_Violation ==
    /\ source.kind = "validate_tiled"
    /\ ~source.overflow_checks
    /\ source.map.width = 65536 /\ source.map.height = 65536
    /\ source.map.layers =
           <<[layer_type |-> "tilelayer", width |-> 65536, height |-> 65536, data |-> <<>>]>>
    /\ result.status = "Ok"

-----------------------------------------------------------------------------
(* level_parser.rs: LevelSymbolMap and the symbol serializer *)

MaxMappings == 2     \* longest list handed to LevelSymbolMap::custom
MaxAddMappings == 2  \* most add_mapping calls on one map

\* HashMap::insert
Insert(map, key, value) ==
    [k \in DOMAIN map \cup {key} |-> IF k = key THEN value ELSE map[k]]

SymbolRange(symbols) == {symbols[c] : c \in DOMAIN symbols}

\* symbols.iter().map(|(&ch, &tile)| (tile, ch)).collect(): a HashMap is
\* iterated in an unspecified order and a later pair replaces an earlier one
\* with the same tile, so a tile of several symbols keeps any one of them
RECURSIVE ReverseOver(_, _)
ReverseOver(symbols, tiles) ==
    IF tiles = {} THEN {[t \in {} |-> t]}
    ELSE LET tile == CHOOSE t \in tiles : TRUE
         IN {Insert(r, tile, ch) :
                r \in ReverseOver(symbols, tiles \ {tile}),
                ch \in {c \in DOMAIN symbols : symbols[c] = tile}}

ReverseMaps(symbols) == ReverseOver(symbols, SymbolRange(symbols))

LevelSymbolMap(symbols, reverse_map) ==
    [symbols |-> symbols, reverse_map |-> reverse_map]

\* LevelSymbolMap::new: the maps it can return
LevelSymbolMap_new ==
    {LevelSymbolMap(DefaultSymbols, r) : r \in ReverseMaps(DefaultSymbols)}

\* the `for (symbol, tile_id) in mappings` loop of LevelSymbolMap::custom
RECURSIVE InsertAll(_, _)
InsertAll(symbols, mappings) ==
    IF mappings = <<>> THEN symbols
    ELSE InsertAll(Insert(symbols, Head(mappings)[1], Head(mappings)[2]), Tail(mappings))

\* LevelSymbolMap::custom: the maps it can return
LevelSymbolMap_custom(mappings) ==
    LET symbols == InsertAll([c \in {"."} |-> 255], mappings)
    IN {LevelSymbolMap(symbols, r) : r \in ReverseMaps(symbols)}

\* LevelSymbolMap::get_symbol
get_symbol(symbol_map, tile_index) ==
    IF tile_index \in DOMAIN symbol_map.reverse_map
    THEN Some(symbol_map.reverse_map[tile_index])
    ELSE None

\* LevelSymbolMap::add_mapping
add_mapping(symbol_map, symbol, tile_index) ==
    LevelSymbolMap(Insert(symbol_map.symbols, symbol, tile_index),
                   Insert(symbol_map.reverse_map, tile_index, symbol))

\* level_to_symbols_with_map
level_to_symbols_with_map(level, symbol_map) ==
    Concat([y \in 1..Len(level.tiles) |->
               [x \in 1..Len(level.tiles[y]) |->
                   LET symbol == get_symbol(symbol_map, level.tiles[y][x])
                   IN IF symbol = None THEN "?" ELSE symbol[1]]
               \o <<"\n">>])

\* symbols and tiles handed to custom and add_mapping
MappedChars == {".", "G", "/", WideChar}

MappedTiles == {255, 180}

Mappings == MappedChars \X MappedTiles

\* the levels that are serialized
SymbolLevels ==
    UNION {{LevelData(w, h, t) : t \in [1..h -> [1..w -> MappedTiles]]} :
              <<w, h>> \in (1..MaxWidth) \X (1..MaxHeight)}

SymbolMapInit ==
    /\ source = [kind |-> "symbol_map", map |-> None, added |-> 0]
    /\ result = NotRun
    /\ level_data = None
    /\ file = None
    /\ EditorIdle

New ==
    /\ source.kind = "symbol_map" /\ source.map = None
    /\ \E m \in LevelSymbolMap_new : source' = [source EXCEPT !.map = Some(m)]
    /\ UNCHANGED <<result, editor, level_data, entities, file, input, pending,
                   frame_start, panicked>>

Custom ==
    /\ source.kind = "symbol_map" /\ source.map = None
    /\ \E mappings \in SeqsUpTo(Mappings, MaxMappings) :
          \E m \in LevelSymbolMap_custom(mappings) :
              source' = [source EXCEPT !.map = Some(m)]
    /\ UNCHANGED <<result, editor, level_data, entities, file, input, pending,
                   frame_start, panicked>>

AddMapping ==
    /\ source.kind = "symbol_map" /\ source.map # None
    /\ file = None
    /\ source.added < MaxAddMappings
    /\ \E mapping \in Mappings :
          source' = [source EXCEPT !.map = Some(add_mapping(source.map[1], mapping[1], mapping[2])),
                                   !.added = @ + 1]
    /\ UNCHANGED <<result, editor, level_data, entities, file, input, pending,
                   frame_start, panicked>>

\* a level is written with the map and the text is parsed with the map
SymbolRoundTrip ==
    /\ source.kind = "symbol_map" /\ source.map # None
    /\ file = None
    /\ \E level \in SymbolLevels :
          LET text == level_to_symbols_with_map(level, source.map[1])
          IN /\ level_data' = Some(level)
             /\ file' = Some(text)
             /\ result' = parse_level_from_symbols_with_map(text, source.map[1].symbols)
    /\ UNCHANGED <<source, editor, entities, input, pending, frame_start, panicked>>

SymbolMapNext == New \/ Custom \/ AddMapping \/ SymbolRoundTrip

SpecSymbolMap == SymbolMapInit /\ [][SymbolMapNext]_vars

-----------------------------------------------------------------------------
(* Claims about LevelSymbolMap and the symbol round trip *)

TilesIn(level) ==
    {level.tiles[y][x] : <<y, x>> \in (1..level.height) \X (1..level.width)}

\* every tile of the level has a symbol, which stands for that tile and is
\* the only symbol that does
BijectiveOver(symbol_map, level) ==
    \A t \in TilesIn(level) :
        /\ t \in DOMAIN symbol_map.reverse_map
        /\ {c \in DOMAIN symbol_map.symbols : symbol_map.symbols[c] = t}
               = {symbol_map.reverse_map[t]}

\* C15: parsing, with a map that is a bijection over the tiles of a valid
\* level, the text that level_to_symbols_with_map wrote for the level with
\* that map returns the level.
C15_SymbolRoundTrip ==
    (source.kind = "symbol_map" /\ file # None
       /\ BijectiveOver(source.map[1], level_data[1])) =>
        result = Ok(level_data[1])

\* with the map custom([('/', 180)]) a row of two grass tiles was written as
\* `//` and the parser found no line in the text
C15_Violation ==
    /\ source.kind = "symbol_map"
    /\ source.added = 0
    /\ source.map # None
    /\ file = Some(<<"/", "/", "\n">>)
    /\ source.map[1].symbols = ("." :> 255) @@ ("/" :> 180)
    /\ level_data = Some(LevelData(2, 1, <<<<180, 180>>>>))
    /\ BijectiveOver(source.map[1], level_data[1])
    /\ result.status = "Err"

\* C16: every map built by new or custom and any add_mapping calls maps `.`
\* to 255 and 255 to `.`.
C16_EmptyMapping ==
    (source.kind = "symbol_map" /\ source.map # None) =>
        /\ get_tile(source.map[1].symbols, ".") = Some(255)
        /\ get_symbol(source.map[1], 255) = Some(".")

\* custom([('.', 180)]) returned a map without the empty mapping
C16_Violation ==
    /\ source.kind = "symbol_map"
    /\ source.added = 0
    /\ source.map # None
    /\ source.map[1].symbols = ("." :> 180)
    /\ get_tile(source.map[1].symbols, ".") = Some(180)
    /\ get_symbol(source.map[1], 255) = None

\* C17: in every map built by new or custom and any add_mapping calls,
\* get_symbol(t) = Some(c) implies get_tile(c) = Some(t).
C17_DirectionsAgree ==
    (source.kind = "symbol_map" /\ source.map # None) =>
        \A t \in DOMAIN source.map[1].reverse_map :
            get_tile(source.map[1].symbols, source.map[1].reverse_map[t]) = Some(t)

\* after new() and add_mapping('G', 255), get_symbol(180) is still 'G' while
\* get_tile('G') is 255
C17_Violation ==
    /\ source.kind = "symbol_map"
    /\ source.added = 1
    /\ source.map # None
    /\ "S" \in DOMAIN source.map[1].symbols
    /\ get_symbol(source.map[1], 180) = Some("G")
    /\ get_tile(source.map[1].symbols, "G") = Some(255)

-----------------------------------------------------------------------------
(* tiled_loader.rs: the converters applied to maps with several layers *)

MaxConvertedDim == 2   \* largest width / height of a converted Tiled map
MaxConvertedData == 3  \* longest data array of its first tile layer

ObjectLayer == [layer_type |-> "objectgroup", data |-> <<>>]

TileLayer(data) == [layer_type |-> "tilelayer", data |-> data]

\* raw ids: empty, an id that create_tile_mapping remaps, one it does not
RawIds == {0, 2, 9}

\* no tile layer at all, or a first tile layer that may follow an object
\* layer and may be followed by another tile layer
ConvertedLayers ==
    {<<>>, <<ObjectLayer>>}
    \cup {before \o <<TileLayer(data)>> \o after :
             before \in {<<>>, <<ObjectLayer>>},
             data \in SeqsUpTo(RawIds, MaxConvertedData),
             after \in {<<>>, <<TileLayer(<<>>)>>, <<TileLayer(<<2>>)>>}}

ConvertedMaps ==
    [width : 1..MaxConvertedDim, height : 1..MaxConvertedDim, layers : ConvertedLayers]

\* a mapping with a key for the id of an empty cell and for an unshifted id
OtherMapping == (255 :> 180) @@ (2 :> 184)

ConvertedSources ==
    [kind : {"tiled"}, text : {<<>>}, map : ConvertedMaps, mapping : {<<>>}]
    \cup [kind : {"tiled_mapped"}, text : {<<>>}, map : ConvertedMaps,
          mapping : {create_tile_mapping, OtherMapping}]

TiledInit ==
    /\ source \in ConvertedSources
    /\ result = NotRun
    /\ level_data = None
    /\ file = None
    /\ EditorIdle

TiledNext == TiledMapToLevelData \/ TiledMapToLevelDataWithMapping

SpecTiled == TiledInit /\ [][TiledNext]_vars

-----------------------------------------------------------------------------
(* Claims about the Tiled converters *)

\* what the claim gives for a raw value d
ShiftedTile(d, mapped, mapping) ==
    IF d = 0 THEN 255
    ELSE IF mapped /\ (d - 1) \in DOMAIN mapping THEN mapping[d - 1]
    ELSE d - 1

\* C18: the converters read the first layer of type tilelayer, and every
\* cell (x, y) with a raw value d = data[y * width + x] becomes 255 if d = 0,
\* else d - 1, or with a mapping mapping[d - 1] if d - 1 is a key.
C18_TiledShift ==
    (source.kind \in {"tiled", "tiled_mapped"} /\ result # NotRun) =>
        LET m == source.map
            tile_layers == {i \in 1..Len(m.layers) : m.layers[i].layer_type = "tilelayer"}
        IN tile_layers # {} =>
              LET first == CHOOSE i \in tile_layers : \A k \in tile_layers : i <= k
                  data == m.layers[first].data
              IN /\ result.status = "Ok"
                 /\ \A x \in 0..(m.width - 1), y \in 0..(m.height - 1) :
                       (y * m.width + x < Len(data)) =>
                           result.level[1].tiles[y + 1][x + 1] =
                               ShiftedTile(data[y * m.width + x + 1],
                                           source.kind = "tiled_mapped", source.mapping)

\* a 2 x 2 map was converted with create_tile_mapping: its first tile layer
\* follows an object layer and holds a remapped id, an unmapped id and an
\* empty cell
C18_Witness ==
    /\ source.kind = "tiled_mapped"
    /\ source.mapping = create_tile_mapping
    /\ source.map.width = 2 /\ source.map.height = 2
    /\ source.map.layers = <<ObjectLayer, TileLayer(<<2, 9, 0>>), TileLayer(<<2>>)>>
    /\ result.status = "Ok"
    /\ result.level[1].tiles = <<<<176, 8>>, <<255, 255>>>>

-----------------------------------------------------------------------------
(* Claims about the size of a level *)

MAX_LEVEL_WIDTH == 200

MAX_LEVEL_HEIGHT == 50

\* C20: every level an importer returns has 1 <= width <= MAX_LEVEL_WIDTH
\* and 1 <= height <= MAX_LEVEL_HEIGHT; input of other dimensions is
\* rejected with an error.
C20_LevelSizeBounds ==
    result.status = "Ok" =>
        /\ 1 <= result.level[1].width /\ result.level[1].width <= MAX_LEVEL_WIDTH
        /\ 1 <= result.level[1].height /\ result.level[1].height <= MAX_LEVEL_HEIGHT

\* the Tiled converter returned a level of width 0 for a map whose header
\* declares width 0
C20_Violation ==
    /\ source.kind = "tiled"
    /\ source.map.width = 0 /\ source.map.height = 1
    /\ source.map.layers = <<[layer_type |-> "tilelayer", data |-> <<>>]>>
    /\ result.status = "Ok"
    /\ result.level[1].width = 0
    /\ result.level[1].tiles = <<<<>>>>

-----------------------------------------------------------------------------
(* level_templates.rs: the template constructors *)

MaxCtorDim == 5  \* largest width / height handed to a constructor

\* the constructor returned the LevelTemplate
Built(width, height, pattern) ==
    [status |-> "Ok", level |-> Some(LevelTemplate(width, height, pattern)), err |-> ""]

\* pattern[y][x] = Cell(x, y) for 0 <= x < width, 0 <= y < height
Grid(width, height, Cell(_, _)) ==
    [y \in 1..height |-> [x \in 1..width |-> Cell(x - 1, y - 1)]]

ground_platform(width, grass_tile, stone_tile) ==
    Built(width, 2, <<[x \in 1..width |-> grass_tile], [x \in 1..width |-> stone_tile]>>)

floating_platform(width, platform_tile) ==
    Built(width, 1, <<[x \in 1..width |-> platform_tile]>>)

pillar(height, stone_tile) ==
    Built(1, height, [y \in 1..height |-> <<stone_tile>>])

staircase_strict(width, height, stone_tile) ==
    LET Cell(x, y) == IF x > y THEN stone_tile ELSE 255
    IN Built(width, height, Grid(width, height, Cell))

staircase(width, height, stone_tile) ==
    LET Cell(x, y) == IF x >= y THEN stone_tile ELSE 255
    IN Built(width, height, Grid(width, height, Cell))

\* room: the top row, then the bottom row, then the two side columns are
\* written, a later write replacing an earlier one.  pattern[0] does not exist
\* when height is 0, pattern[y][0] does not when width is 0.
room(width, height, wall_tile, floor_tile) ==
    LET Cell(x, y) == IF x = 0 \/ x = width - 1 THEN wall_tile
                      ELSE IF y = height - 1 THEN floor_tile
                      ELSE IF y = 0 THEN wall_tile
                      ELSE 255
    IN IF (width = 0) # (height = 0) THEN Panic
       ELSE Built(width, height, Grid(width, height, Cell))

\* bridge: the deck, then the supports at both ends of rows 1 and 2
bridge(width, platform_tile, support_tile) ==
    LET Cell(x, y) == IF y = 0 THEN platform_tile
                      ELSE IF x = 0 \/ x = width - 1 THEN support_tile
                      ELSE 255
    IN IF width = 0 THEN Panic
       ELSE Built(width, 3, Grid(width, 3, Cell))

\* tower: the walls, then a floor between the walls in rows 3, 7, 11, ...,
\* then the base row.  With height 0 and width > 0 the base loop computes
\* height - 1: a panic with overflow checks, the index u32::MAX without.
tower(width, height, wall_tile, floor_tile, overflow_checks) ==
    LET Cell(x, y) == IF y = height - 1 THEN floor_tile
                      ELSE IF y % 4 = 3 /\ 1 <= x /\ x < width - 1 THEN floor_tile
                      ELSE IF x = 0 \/ x = width - 1 THEN wall_tile
                      ELSE 255
    IN IF width = 0 /\ height > 0 THEN Panic
       ELSE IF width > 0 /\ height = 0
       THEN IF overflow_checks THEN Overflowed ELSE Panic
       ELSE Built(width, height, Grid(width, height, Cell))

\* pit: the walls, then the bottom row
pit(width, depth, wall_tile, overflow_checks) ==
    LET Cell(x, y) == IF y = depth - 1 \/ x = 0 \/ x = width - 1 THEN wall_tile ELSE 255
    IN IF width = 0 /\ depth > 0 THEN Panic
       ELSE IF width > 0 /\ depth = 0
       THEN IF overflow_checks THEN Overflowed ELSE Panic
       ELSE Built(width, depth, Grid(width, depth, Cell))

\* garden: grass, then flowers in every row but the last, then the two trees.
\* With height 0 the flower loop computes height - 1: a panic with overflow
\* checks; without, rows 0..u32::MAX are visited, and pattern[0][0] does not
\* exist unless width is 0 too.
garden(width, height, grass_tile, flower_tile, tree_tile, overflow_checks) ==
    LET Cell(x, y) == IF width > 2 /\ height > 2 /\ y = 0 /\ (x = 1 \/ x = width - 2)
                      THEN tree_tile
                      ELSE IF y < height - 1 /\ (x + y) % 3 = 0 THEN flower_tile
                      ELSE grass_tile
    IN IF height = 0
       THEN IF overflow_checks THEN Overflowed
            ELSE IF width = 0 THEN Built(0, 0, <<>>)
            ELSE Panic
       ELSE Built(width, height, Grid(width, height, Cell))

\* |a - b| for a, b < 2^31, as a u32
AbsDiff(a, b) == U32(IF a >= b THEN a - b ELSE b - a)

\* dx * dx + dy * dy on i32, from |dx| and |dy|: the wrapped value as its 32
\* bits, and whether a product or the sum left the i32 range
SquaredDistance(adx, ady) ==
    LET dx2 == U32Mul(adx, adx)
        dy2 == U32Mul(ady, ady)
        sum == U32Add(dx2.value, dy2.value)
    IN [value |-> sum.value,
        overflow |-> \/ dx2.overflow \/ dx2.value.hi >= 32768
                     \/ dy2.overflow \/ dy2.value.hi >= 32768
                     \/ sum.overflow \/ sum.value.hi >= 32768]

\* cave_entrance: stone outside the disc around the centre.  The radius is
\* below 2^24 for every size taken here, so the two f32 values compare as the
\* integers they were converted from.
cave_entrance(width, height, stone_tile, overflow_checks) ==
    LET center_x == width \div 2
        center_y == height \div 2
        radius == Min(center_x, center_y) * Min(center_x, center_y)
        Distance(x, y) == SquaredDistance(AbsDiff(x, center_x), AbsDiff(y, center_y))
        Cell(x, y) == LET distance == Distance(x, y).value
                      IN IF distance.hi < 32768 /\ U32Greater(distance, U32(radius))
                         THEN stone_tile ELSE 255
    IN IF /\ overflow_checks
          /\ \E y \in 0..(height - 1) : \E x \in 0..(width - 1) : Distance(x, y).overflow
       THEN Overflowed
       ELSE Built(width, height, Grid(width, height, Cell))

Constructors ==
    {"ground_platform", "floating_platform", "pillar", "staircase", "room", "bridge",
     "tower", "pit", "garden", "cave_entrance"}

\* the call of constructor `ctor` with the sizes and tiles of `args`
Construct(ctor, args) ==
    LET w == args.width
        h == args.height
        t == args.tiles
        oc == args.overflow_checks
    IN CASE ctor = "ground_platform" -> ground_platform(w, t[1], t[2])
         [] ctor = "floating_platform" -> floating_platform(w, t[1])
         [] ctor = "pillar" -> pillar(h, t[1])
         [] ctor = "staircase" -> staircase(w, h, t[1])
         [] ctor = "room" -> room(w, h, t[1], t[2])
         [] ctor = "bridge" -> bridge(w, t[1], t[2])
         [] ctor = "tower" -> tower(w, h, t[1], t[2], oc)
         [] ctor = "pit" -> pit(w, h, t[1], oc)
         [] ctor = "garden" -> garden(w, h, t[1], t[2], t[3], oc)
         [] ctor = "cave_entrance" -> cave_entrance(w, h, t[1], oc)

\* stone, grass and the empty tile
TemplateTiles == {176, 180, 255}

\* the narrowest cave whose centre is so far from column 0 that dx * dx does
\* not fit an i32
WideCave == 92682

TemplateSources ==
    [kind : {"template"}, ctor : Constructors,
     width : 0..MaxCtorDim, height : 0..MaxCtorDim,
     tiles : TemplateTiles \X TemplateTiles \X TemplateTiles,
     overflow_checks : BOOLEAN]
    \cup [kind : {"template"}, ctor : {"cave_entrance"},
          width : {WideCave}, height : {1}, tiles : {<<176, 176, 176>>},
          overflow_checks : BOOLEAN]

TemplateInit ==
    /\ source \in TemplateSources
    /\ result = NotRun
    /\ level_data = None
    /\ file = None
    /\ EditorIdle

NewTemplate ==
    /\ source.kind = "template"
    /\ result = NotRun
    /\ result' = Construct(source.ctor, source)
    /\ UNCHANGED <<source, editor, level_data, entities, file, input, pending,
                   frame_start, panicked>>

TemplateNext == NewTemplate

SpecTemplate == TemplateInit /\ [][TemplateNext]_vars

-----------------------------------------------------------------------------
(* Claims about the template constructors *)

\* C21: for all w, h >= 1 and every tile s, staircase(w, h, s) holds s in
\* pattern[y][x] exactly where x >= y, and 255 in every other cell (s = 255 is
\* the empty tile, for which every cell is 255).
C21_StaircaseCells ==
    (/\ source.kind = "template" /\ source.ctor = "staircase"
     /\ source.width >= 1 /\ source.height >= 1
     /\ result # NotRun) =>
        /\ result.status = "Ok"
        /\ \A y \in 0..(source.height - 1), x \in 0..(source.width - 1) :
               LET cell == result.level[1].pattern[y + 1][x + 1]
                   s == source.tiles[1]
               IN /\ cell = IF x >= y THEN s ELSE 255
                  /\ s # 255 => (cell = s <=> x >= y)

\* a staircase wider and taller than 1 was built of stone
C21_Witness ==
    /\ source.kind = "template" /\ source.ctor = "staircase"
    /\ source.width = 2 /\ source.height = 3 /\ source.tiles[1] = 180
    /\ result.status = "Ok"
    /\ result.level[1].pattern = <<<<180, 180>>, <<255, 180>>, <<255, 255>>>>

\* C22: staircase(3, 3, 176) returns the rows, top row first,
\* [[176,255,255],[176,176,255],[176,176,176]].
C22_StaircaseExample ==
    (/\ source.kind = "template" /\ source.ctor = "staircase"
     /\ source.width = 3 /\ source.height = 3 /\ source.tiles[1] = 176
     /\ result # NotRun) =>
        /\ result.status = "Ok"
        /\ result.level[1].pattern =
               <<<<176, 255, 255>>, <<176, 176, 255>>, <<176, 176, 176>>>>

\* the code fills row y from column y on: the top row is all stone
C22_Violation ==
    /\ source.kind = "template" /\ source.ctor = "staircase"
    /\ source.width = 3 /\ source.height = 3 /\ source.tiles[1] = 176
    /\ result.status = "Ok"
    /\ result.level[1].pattern =
           <<<<176, 176, 176>>, <<255, 176, 176>>, <<255, 255, 176>>>>

\* the constructors that take a width, and those that take a height
TakesWidth == Constructors \ {"pillar"}

TakesHeight == Constructors \ {"ground_platform", "floating_platform", "bridge"}

\* the dimension the table fixes for a constructor, if any
FixedHeight == ("ground_platform" :> 2) @@ ("floating_platform" :> 1) @@ ("bridge" :> 3)

FixedWidth == ("pillar" :> 1)

\* C23: every template constructor, for all sizes >= 1, returns a
\* LevelTemplate whose pattern has exactly `height` rows of exactly `width`
\* cells, with the fixed dimension of the table where one is given.
C23_TemplateShape ==
    (/\ source.kind = "template"
     /\ source.ctor \in TakesWidth => source.width >= 1
     /\ source.ctor \in TakesHeight => source.height >= 1
     /\ result # NotRun) =>
        /\ result.status = "Ok"
        /\ LET template == result.level[1]
           IN /\ Len(template.pattern) = template.height
              /\ \A y \in 1..template.height : Len(template.pattern[y]) = template.width
              /\ template.width = IF source.ctor \in DOMAIN FixedWidth
                                  THEN FixedWidth[source.ctor] ELSE source.width
              /\ template.height = IF source.ctor \in DOMAIN FixedHeight
                                   THEN FixedHeight[source.ctor] ELSE source.height

\* with overflow checks, cave_entrance panics on dx * dx for a width of 92682
C23_Violation ==
    /\ source.kind = "template" /\ source.ctor = "cave_entrance"
    /\ source.width = WideCave /\ source.height = 1
    /\ source.overflow_checks
    /\ result = Overflowed

-----------------------------------------------------------------------------
(* level_loader.rs: is_solid_tile, is_platform_tile and the collision map *)

MaxTileId == 255  \* largest tile id that is classified

\* is_platform_tile that also counts the spikes
is_platform_tile_spiked(tile_index) ==
    \/ tile_index \in Elems(WOOD_PLATFORMS)
    \/ tile_index \in Elems(STONE_PLATFORMS)
    \/ tile_index \in Elems(METAL_PLATFORMS)
    \/ tile_index \in Elems(SPIKES)

is_solid_tile(tile_index) ==
    \/ tile_index \in Elems(GRASS_TILES)
    \/ tile_index \in Elems(STONE_TILES)
    \/ tile_index \in Elems(BRICK_TILES)
    \/ tile_index \in Elems(ROCK_TILES)
    \/ tile_index \in Elems(SPIKES)

is_platform_tile(tile_index) ==
    \/ tile_index \in Elems(WOOD_PLATFORMS)
    \/ tile_index \in Elems(STONE_PLATFORMS)
    \/ tile_index \in Elems(METAL_PLATFORMS)

\* load_level has built the map; a tile id is about to be classified
ClassifyInit ==
    /\ source \in [kind : {"classify"}, tile_index : 0..MaxTileId,
                   collision_map : {create_collision_map}]
    /\ result = NotRun
    /\ level_data = None
    /\ file = None
    /\ EditorIdle

\* both predicates are called on the tile id
ClassifyTile ==
    /\ source.kind = "classify"
    /\ result = NotRun
    /\ result' = [status |-> "Ok",
                  level |-> Some([is_solid |-> is_solid_tile(source.tile_index),
                                  is_platform |-> is_platform_tile(source.tile_index)]),
                  err |-> ""]
    /\ UNCHANGED <<source, editor, level_data, entities, file, input, pending,
                   frame_start, panicked>>

ClassifyNext == ClassifyTile

SpecClassify == ClassifyInit /\ [][ClassifyNext]_vars

-----------------------------------------------------------------------------
(* Claims about the classification of tiles *)

\* C24: the TileCollisionMap built by create_collision_map has no tile id in
\* both solid_tiles and platform_tiles, and for every tile id is_solid_tile
\* and is_platform_tile are never both true and agree with membership in the
\* two sets of the map.
C24_ClassificationDisjoint ==
    source.kind = "classify" =>
        /\ source.collision_map.solid_tiles \cap source.collision_map.platform_tiles = {}
        /\ result # NotRun =>
              /\ ~(result.level[1].is_solid /\ result.level[1].is_platform)
              /\ result.level[1].is_solid <=>
                     source.tile_index \in source.collision_map.solid_tiles
              /\ result.level[1].is_platform <=>
                     source.tile_index \in source.collision_map.platform_tiles

\* a spike has been classified: solid, and no platform
C24_Witness ==
    /\ source.kind = "classify"
    /\ source.tile_index = 80
    /\ result # NotRun
    /\ result.level[1].is_solid /\ ~result.level[1].is_platform

-----------------------------------------------------------------------------
(* level_loader.rs: load_level spawns a level, the editor paints on it *)

\* a platform, a solid tile, two tiles of neither class, no tile
SpawnTiles == <<32, 16, 176, 184, 255>>

\* a level that holds the tiles of SpawnTiles in turn, from the k-th on
SpawnLevel(k) ==
    LevelData(LevelW, LevelH,
        [y \in 1..LevelH |-> [x \in 1..LevelW |->
            SpawnTiles[((x + y + k) % Len(SpawnTiles)) + 1]]])

SpawnLevels == {SpawnLevel(k) : k \in 1..Len(SpawnTiles)}

\* the rectangle a collider covers: Collider::cuboid(hx, hy) is inserted on
\* the tile entity without an offset, so it is centred on the Transform
ColliderBox(entity) ==
    [left |-> entity.x - entity.collider[1][1], right |-> entity.x + entity.collider[1][1],
     bottom |-> entity.y - entity.collider[1][2], top |-> entity.y + entity.collider[1][2]]

\* the app has inserted the resources; the Startup schedule has not run
SpawnInit ==
    /\ source = [kind |-> "startup", collision_map |-> create_collision_map]
    /\ result = NotRun
    /\ editor = LevelEditorDefault
    /\ level_data \in {Some(l) : l \in SpawnLevels}
    /\ entities = EmptyBag
    /\ file = None
    /\ input = NoInput
    /\ pending = {}
    /\ frame_start = LevelEditorDefault
    /\ panicked = FALSE

\* load_level: spawn_level_tiles on the level, with the map it has built
LoadLevel ==
    /\ source.kind = "startup"
    /\ entities' = spawn_level_tiles(level_data[1], source.collision_map)
    /\ source' = [source EXCEPT !.kind = "running"]
    /\ UNCHANGED <<result, editor, level_data, file, input, pending, frame_start, panicked>>

\* a frame of the Update schedule begins
SampleSpawnInput ==
    /\ source.kind = "running"
    /\ SamplePaintInput

SpawnNext == LoadLevel \/ SampleSpawnInput \/ RunSystems

SpecSpawn == SpawnInit /\ [][SpawnNext]_vars

-----------------------------------------------------------------------------
(* level_loader.rs: update_tile_collisions after the classes have changed *)

\* update_tile_collisions followed by the application of its queued inserts:
\* every entity without a Collider gets the collider of its class, if any
update_tile_collisions(ents, collision_map) ==
    LET Updated(e) == IF e.collider = None
                      THEN [e EXCEPT !.collider = ColliderFor(e.index, collision_map)]
                      ELSE e
    IN BagOfAll(Updated, ents)

\* the tile ids that a running game may classify
Unclassified == {176, 184, 255}

\* a tile id of neither class is added to one of the sets of the
\* TileCollisionMap resource
InsertClassification ==
    /\ source.kind = "running"
    /\ \E tile_index \in Unclassified, class \in {"solid_tiles", "platform_tiles"} :
          /\ tile_index \notin source.collision_map.solid_tiles
          /\ tile_index \notin source.collision_map.platform_tiles
          /\ source' = [source EXCEPT !.collision_map[class] = @ \cup {tile_index}]
    /\ UNCHANGED <<result, editor, level_data, entities, file, input, pending,
                   frame_start, panicked>>

UpdateTileCollisions ==
    /\ source.kind = "running"
    /\ entities' = update_tile_collisions(entities, source.collision_map)
    /\ UNCHANGED <<source, result, editor, level_data, file, input, pending,
                   frame_start, panicked>>

ReclassifyNext == LoadLevel \/ InsertClassification \/ UpdateTileCollisions

SpecReclassify == SpawnInit /\ [][ReclassifyNext]_vars

-----------------------------------------------------------------------------
(* Claims about colliders *)

\* the square of the cell a tile entity is drawn in, and its upper half
CellBox(entity) ==
    [left |-> entity.x - TILE_SIZE_16 \div 2, right |-> entity.x + TILE_SIZE_16 \div 2,
     bottom |-> entity.y - TILE_SIZE_16 \div 2, top |-> entity.y + TILE_SIZE_16 \div 2]

UpperHalf(entity) == [CellBox(entity) EXCEPT !.bottom = entity.y]

\* C25: every tile entity spawned by the level spawner or by the editor has
\* a box collider over the whole cell (half-extents 8 x 8, centred on the
\* cell) iff its id is solid, a box of half-extents (8, 4) over the upper half
\* of the cell iff its id is a platform, and no collider otherwise; no entity
\* is spawned for id 255.
C25_ColliderSelection ==
    source.kind = "running" =>
        \A e \in BagToSet(entities) :
            /\ e.index # 255
            /\ e.index \in source.collision_map.solid_tiles <=>
                   (e.collider = Cuboid(8, 8) /\ ColliderBox(e) = CellBox(e))
            /\ e.index \in source.collision_map.platform_tiles <=>
                   (e.collider = Cuboid(8, 4) /\ ColliderBox(e) = UpperHalf(e))
            /\ (/\ e.index \notin source.collision_map.solid_tiles
                /\ e.index \notin source.collision_map.platform_tiles) => e.collider = None

\* the level spawner gave a platform tile a box around the middle of its
\* cell: from 4 below to 4 above the centre
C25_Violation ==
    /\ source.kind = "running"
    /\ \E e \in BagToSet(entities) :
          /\ e.index = 32 /\ ~e.editor_tile
          /\ e.collider = Cuboid(8, 4)
          /\ ColliderBox(e).bottom = e.y - 4 /\ ColliderBox(e).top = e.y + 4

\* the same tile entity, but for its collider
SameTile(e, f) == [e EXCEPT !.collider = None] = [f EXCEPT !.collider = None]

\* C29: the classification is consulted only when a tile entity is spawned:
\* no step changes the collider of an entity that exists, so an entity
\* spawned without a collider keeps none when its tile id is later added to
\* solid or platform.
C29_ClassifiedAtSpawnOnly ==
    [][\A e \in BagToSet(entities) :
           (\E f \in BagToSet(entities') : SameTile(e, f)) => e \in BagToSet(entities')]_vars

\* tile 176 was spawned without a collider, was then added to solid_tiles,
\* and update_tile_collisions has given the entity a full box
C29_Violation ==
    /\ source.kind = "running"
    /\ level_data = Some(SpawnLevel(5))
    /\ 176 \in source.collision_map.solid_tiles
    /\ \E e \in BagToSet(entities) : e.index = 176 /\ e.collider = Cuboid(8, 8)

-----------------------------------------------------------------------------
(* tiled_loader.rs and level_loader.rs: grid and world coordinates *)

MaxGrid == 7  \* largest small grid coordinate that is converted

\* the gap between neighbouring f32 values around n
RECURSIVE F32Ulp(_, _)
F32Ulp(n, ulp) == IF n \div ulp < 16777216 THEN ulp ELSE F32Ulp(n, 2 * ulp)

\* `n as f32` for a u32 n: the nearest value with 24 significant bits, a tie
\* going to the even one
U32AsF32(n) ==
    LET ulp == F32Ulp(n, 1)
        q == n \div ulp
        r == n % ulp
    IN IF 2 * r > ulp \/ (2 * r = ulp /\ q % 2 = 1) THEN (q + 1) * ulp ELSE q * ulp

\* `f.floor() as u32` for the quotient f = a / tile_size, saturating at 0.
\* tile_size is a power of two here, so products and quotients are exact.
FloorAsU32(a, tile_size) == Max(0, a \div tile_size)

tiled_to_world_coords(tiled_x, tiled_y, tile_size) ==
    <<U32AsF32(tiled_x) * tile_size, -(U32AsF32(tiled_y) * tile_size)>>

world_to_tiled_coords(world_x, world_y, tile_size) ==
    <<FloorAsU32(world_x, tile_size), FloorAsU32(-world_y, tile_size)>>

get_tile_at_position(level, world_pos) ==
    LET tile_x == world_pos[1] \div TILE_SIZE_16
        tile_y == (-world_pos[2]) \div TILE_SIZE_16
    IN IF tile_x >= 0 /\ tile_x < level.width /\ tile_y >= 0 /\ tile_y < level.height
       THEN Some(level.tiles[tile_y + 1][tile_x + 1])
       ELSE None

\* a level whose every cell holds a tile id of its own
NumberedLevel(width, height) ==
    LevelData(width, height,
        [y \in 1..height |-> [x \in 1..width |-> (y - 1) * width + (x - 1)]])

\* small coordinates, and the first two past the 24 bits of an f32
GridCoords == (0..MaxGrid) \cup {16777216, 16777217}

CoordsInit ==
    /\ source \in [kind : {"coords"}, gx : GridCoords, gy : GridCoords]
    /\ result = NotRun
    /\ level_data = Some(NumberedLevel(MaxGrid + 1, MaxGrid + 1))
    /\ file = None
    /\ EditorIdle

\* tiled_to_world_coords, then world_to_tiled_coords on what it returned
TiledToWorldAndBack ==
    /\ source.kind = "coords"
    /\ result = NotRun
    /\ LET world == tiled_to_world_coords(source.gx, source.gy, TILE_SIZE_16)
       IN result' = [status |-> "Ok",
                     level |-> Some([world |-> world,
                                     back |-> world_to_tiled_coords(world[1], world[2],
                                                                    TILE_SIZE_16)]),
                     err |-> "tiled"]
    /\ UNCHANGED <<source, editor, level_data, entities, file, input, pending,
                   frame_start, panicked>>

\* get_tile_at_position at the position where the spawner puts a cell's tile
GetTileAtSpawnPosition ==
    /\ source.kind = "coords"
    /\ result = NotRun
    /\ <<source.gx, source.gy>> \in Cells(level_data[1])
    /\ LET world == WorldTilePos(<<source.gx, source.gy>>)
       IN result' = [status |-> "Ok",
                     level |-> Some([world |-> world,
                                     tile |-> get_tile_at_position(level_data[1], world)]),
                     err |-> "level"]
    /\ UNCHANGED <<source, editor, level_data, entities, file, input, pending,
                   frame_start, panicked>>

CoordsNext == TiledToWorldAndBack \/ GetTileAtSpawnPosition

SpecCoords == CoordsInit /\ [][CoordsNext]_vars

-----------------------------------------------------------------------------
(* Claims about coordinates *)

\* C26: for every grid cell (gx, gy) with gx, gy >= 0 and tile size 16, the
\* world coordinates (16 * gx, -16 * gy) floor back to (gx, gy): for
\* tiled_to_world_coords / world_to_tiled_coords, and for the conversion of
\* the editor and of get_tile_at_position, so that the position at which a
\* tile is spawned maps back to its own cell.
C26_CoordinateInverse ==
    (source.kind = "coords" /\ result # NotRun) =>
        LET cell == <<source.gx, source.gy>>
            got == result.level[1]
        IN /\ result.err = "tiled" =>
                  /\ got.world = <<16 * source.gx, -(16 * source.gy)>>
                  /\ got.back = cell
           /\ result.err = "level" =>
                  /\ got.world = <<16 * source.gx, -(16 * source.gy)>>
                  /\ got.tile = Some(TileAt(level_data[1], cell))
                  /\ BrushCells(level_data[1], got.world, 1) = {cell}

\* column 2^24 + 1 became the world x of column 2^24, and came back as 2^24
C26_Violation ==
    /\ source.kind = "coords"
    /\ source.gx = 16777217 /\ source.gy = 1
    /\ result.err = "tiled"
    /\ result.level[1].world = <<268435456, -16>>
    /\ result.level[1].back = <<16777216, 1>>

-----------------------------------------------------------------------------
(* level_editor.rs: level_editor_mouse with every brush size *)

PaintW == 4  \* width of the level that is painted
PaintH == 3  \* height of the level that is painted

\* world positions of the pointer: inside every cell, just outside the
\* top-left and the right edge, and far from the level
PaintPointers ==
    {<<TILE_SIZE_16 * gx + 5, -(TILE_SIZE_16 * gy) - 3>> :
        <<gx, gy>> \in (0..PaintW) \X (0..(PaintH - 1))}
    \cup {<<-5, 5>>, <<-100, 100>>}

\* the editor with any tile of the palette and any brush it can reach
PaintEditors ==
    [enabled : BOOLEAN, current_tile : {180, 184, 255}, brush_size : 1..5, show_ui : {TRUE}]

\* level_editor_mouse is about to run in a frame in which a button is held
PaintInit ==
    /\ source = NoSource
    /\ result = NotRun
    /\ editor \in PaintEditors
    /\ level_data = Some(FilledLevel(PaintW, PaintH, 16))
    /\ entities = spawn_level_tiles(level_data[1], create_collision_map)
    /\ file = None
    /\ input \in {i \in [keys : {{}}, left : BOOLEAN, right : BOOLEAN,
                         cursor : {Some(p) : p \in PaintPointers}] : i.left \/ i.right}
    /\ pending = {"level_editor_mouse"}
    /\ frame_start = editor
    /\ panicked = FALSE

PaintNext == RunLevelEditorMouse

SpecPaint == PaintInit /\ [][PaintNext]_vars

-----------------------------------------------------------------------------
(* Claims about the brush *)

Abs(n) == IF n >= 0 THEN n ELSE -n

\* the cells of the brush square around the cell under the pointer
Footprint(world_pos, brush_size) ==
    LET cx == world_pos[1] \div 16
        cy == (-world_pos[2]) \div 16
        r == brush_size \div 2
    IN {c \in ((cx - 5)..(cx + 5)) \X ((cy - 5)..(cy + 5)) :
           Abs(c[1] - cx) <= r /\ Abs(c[2] - cy) <= r}

\* C27: with the editor enabled and the pointer over grid centre (cx, cy), a
\* Paint sets exactly the cells with |gx - cx| <= r and |gy - cy| <= r,
\* r = brush_size / 2, that lie inside the level to current_tile, an Erase
\* sets exactly those cells to 255 (after the Paint when both buttons are
\* held), every other cell is unchanged, and the part of the square outside
\* the level is skipped without error.
C27_BrushFootprint ==
    [][(/\ Runs("level_editor_mouse")
        /\ editor.enabled /\ level_data # None /\ input.cursor # None) =>
           /\ ~panicked'
           /\ level_data' # None
           /\ level_data'[1].width = level_data[1].width
           /\ level_data'[1].height = level_data[1].height
           /\ \A c \in Cells(level_data[1]) :
                  TileAt(level_data'[1], c) =
                      IF c \notin Footprint(input.cursor[1], editor.brush_size)
                      THEN TileAt(level_data[1], c)
                      ELSE IF input.right THEN 255
                      ELSE IF input.left THEN editor.current_tile
                      ELSE TileAt(level_data[1], c)]_vars

\* a brush of size 3 over the top-left cell has painted the four cells of
\* its square that lie inside the level, and no other
C27_Witness ==
    /\ pending = {}
    /\ editor.enabled /\ editor.brush_size = 3 /\ editor.current_tile = 184
    /\ input = [keys |-> {}, left |-> TRUE, right |-> FALSE, cursor |-> Some(<<5, -3>>)]
    /\ level_data = Some(LevelData(PaintW, PaintH,
           [y \in 1..PaintH |-> [x \in 1..PaintW |->
               IF x <= 2 /\ y <= 2 THEN 184 ELSE 16]]))

-----------------------------------------------------------------------------
(* Claims about the order of the editor systems within a frame *)

\* the editor after the state updates of the frame: toggle, then tile
\* selection and brush
UpdatedEditor ==
    level_editor_input(toggle_level_editor(frame_start, input.keys), input.keys)

\* the level after the edit application of the frame
EditedLevel ==
    IF "level_editor_mouse" \in pending
    THEN level_editor_mouse(UpdatedEditor, input, level_data, entities).level_data
    ELSE level_data

\* C28: within a frame the editor systems take effect in the order editor
\* state update, edit application, save/load: the edit application uses the
\* updated editor state, a Save writes a file that contains the frame's
\* Paint, and the editor state at the end of the frame is the same for every
\* interleaving of the systems.
C28_FrameOrder ==
    [][/\ Runs("level_editor_mouse") =>
              LET after == level_editor_mouse(UpdatedEditor, input, level_data, entities)
              IN level_data' = after.level_data /\ entities' = after.entities
       /\ Runs("level_editor_save_load") =>
              \E write_ok \in BOOLEAN :
                  file' = level_editor_save_load(UpdatedEditor, input.keys, EditedLevel,
                                                 file, write_ok).file
       /\ (pending # {} /\ pending' = {}) => editor' = UpdatedEditor]_vars

\* in a frame with F1 and the left button, level_editor_mouse has run after
\* toggle_level_editor and before level_editor_input: it has painted with an
\* editor that the frame's state update leaves disabled
C28_Violation ==
    /\ ~frame_start.enabled
    /\ input = [keys |-> {"F1"}, left |-> TRUE, right |-> FALSE, cursor |-> Some(<<5, -3>>)]
    /\ pending = {"level_editor_input", "level_editor_save_load"}
    /\ editor.enabled
    /\ ~UpdatedEditor.enabled
    /\ level_data # None
    /\ TileAt(level_data[1], <<0, 0>>) = 180
    /\ \E e \in BagToSet(entities) : e.editor_tile /\ e.x = 0 /\ e.y = 0

-----------------------------------------------------------------------------
(* level_templates.rs: place_templates *)

MaxPlacements == 2  \* longest list handed to place_templates

\* the map over the list from entry i on: the booleans collected so far and
\* the level; a panic in a place_template unwinds through the iterator
RECURSIVE PlaceFrom(_, _, _, _, _)
PlaceFrom(level, templates, overflow_checks, i, collected) ==
    IF i > Len(templates) THEN [returned |-> Some(collected), level |-> level]
    ELSE LET placed == place_template(level, templates[i].template, templates[i].x,
                                      templates[i].y, overflow_checks)
         IN IF placed.returned = None THEN Panicked(placed.level)
            ELSE PlaceFrom(placed.level, templates, overflow_checks, i + 1,
                           Append(collected, placed.returned[1]))

place_templates(level, templates, overflow_checks) ==
    PlaceFrom(level, templates, overflow_checks, 1, <<>>)

\* a tile, a tile right of a transparent cell, a column of two tiles
PlacedTemplates ==
    {LevelTemplate(1, 1, <<<<181>>>>),
     LevelTemplate(2, 1, <<<<255, 182>>>>),
     LevelTemplate(1, 2, <<<<183>>, <<183>>>>)}

\* rows: inside, and where a sum wraps
StartRows == {U32(0), U32(1), U32_MAX}

Placements == [template : PlacedTemplates, x : StartCoords, y : StartRows]

PlaceAllInit ==
    /\ source \in [kind : {"place_templates"},
                   templates : SeqsUpTo(Placements, MaxPlacements),
                   overflow_checks : BOOLEAN]
    /\ result = NotRun
    /\ level_data = Some(FilledLevel(TemplateLevelW, TemplateLevelH, 176))
    /\ file = None
    /\ EditorIdle

\* result.level keeps the level as it was before the call, result.err is the
\* Vec<bool> that was returned
PlaceTemplates ==
    /\ source.kind = "place_templates"
    /\ result = NotRun
    /\ LET after == place_templates(level_data[1], source.templates, source.overflow_checks)
       IN /\ level_data' = Some(after.level)
          /\ result' = [status |-> IF after.returned = None THEN "Panic" ELSE "Ok",
                        level |-> level_data,
                        err |-> IF after.returned = None THEN <<>> ELSE after.returned[1]]
    /\ UNCHANGED <<source, editor, entities, file, input, pending, frame_start, panicked>>

PlaceAllNext == PlaceTemplates

SpecPlaceAll == PlaceAllInit /\ [][PlaceAllNext]_vars

-----------------------------------------------------------------------------
(* Claims about place_templates *)

\* the level with the cells of a fitting template that are not 255 laid over it
Overlaid(level, entry) ==
    [level EXCEPT !.tiles =
        [cy \in 1..level.height |-> [cx \in 1..level.width |->
            LET over == {c \in Covering(entry.template, entry.x, entry.y, cx - 1, cy - 1) :
                            entry.template.pattern[c[2] + 1][c[1] + 1] # 255}
            IN IF over = {} THEN level.tiles[cy][cx]
               ELSE LET c == CHOOSE d \in over : TRUE
                    IN entry.template.pattern[c[2] + 1][c[1] + 1]]]]

\* the booleans and the level that the entries from i on leave, each entry
\* placed on the level left by the one before it
RECURSIVE InListOrder(_, _, _, _)
InListOrder(level, templates, i, collected) ==
    IF i > Len(templates) THEN [returned |-> collected, level |-> level]
    ELSE IF Fits(level, templates[i].template, templates[i].x, templates[i].y)
    THEN InListOrder(Overlaid(level, templates[i]), templates, i + 1, Append(collected, TRUE))
    ELSE InListOrder(level, templates, i + 1, Append(collected, FALSE))

\* C30: place_templates applies the placements in list order, each to the
\* level left by the one before, and returns one boolean per entry in that
\* order; an entry that does not fit yields false, leaves the level as it is
\* and does not keep later entries from being placed; where two placements
\* overlap in cells that are not 255 the tile of the later entry remains.
C30_PlacementsInOrder ==
    (source.kind = "place_templates" /\ result # NotRun) =>
        LET expected == InListOrder(result.level[1], source.templates, 1, <<>>)
        IN /\ result.status = "Ok"
           /\ result.err = expected.returned
           /\ level_data = Some(expected.level)

\* with overflow checks the first entry, at column u32::MAX, panicked in
\* place_template: no list was returned and the second entry was not placed
C30_Violation ==
    /\ source.kind = "place_templates"
    /\ source.overflow_checks
    /\ source.templates =
           <<[template |-> LevelTemplate(2, 1, <<<<255, 182>>>>), x |-> U32_MAX, y |-> U32(0)],
             [template |-> LevelTemplate(1, 1, <<<<181>>>>), x |-> U32(0), y |-> U32(0)]>>
    /\ result.status = "Panic"
    /\ level_data[1].tiles[1][1] = 176

=============================================================================
